---- MODULE Spec2Model ----
(***************************************************************************)
(* The task-inference pipeline of backend/app/agents/task_inference.py     *)
(* with the LLM clients of backend/app/agents/llm_clients.py and the Task  *)
(* model of backend/app/models/task.py.                                    *)
(*                                                                         *)
(* Text is a TLA+ string handled with Python's string semantics (0-based   *)
(* find, slices, strip, lower).  The character "~" stands for the         *)
(* backtick, so "~~~" is a Markdown fence.                                 *)
(* A Python value that may be of any JSON type is a tagged record, see Str,*)
(* Num, Null and Absent.                                                   *)
(***************************************************************************)
EXTENDS Integers, Sequences, FiniteSets, TLC

\* ------------------------------------------------------------------------
\* Bounds of the model
\* ------------------------------------------------------------------------

\* Longest candidate list the extraction service returns.
MaxTasks == 2

\* ------------------------------------------------------------------------
\* Python values
\* ------------------------------------------------------------------------

Str(s) == [k |-> "str", s |-> s, n |-> 0]
Num(n) == [k |-> "num", s |-> "", n |-> n]
Null == [k |-> "null", s |-> "", n |-> 0]
\* The key is missing from the dict.
Absent == [k |-> "absent", s |-> "", n |-> 0]

\* dict.get(key, default): the default only when the key is missing.
Get(v, default) == IF v.k = "absent" THEN default ELSE v

\* Truthiness of a value, as in `if task_data.get("due_date"):`.
Truthy(v) ==
    CASE v.k = "str" -> v.s # ""
      [] v.k = "num" -> v.n # 0
      [] OTHER -> FALSE

\* ------------------------------------------------------------------------
\* Python strings
\* ------------------------------------------------------------------------

Min(a, b) == IF a < b THEN a ELSE b
Max(a, b) == IF a > b THEN a ELSE b

\* s[i], 0-based, as a one-character string.
CharAt(s, i) == SubSeq(s, i + 1, i + 1)

\* One slice bound: a negative bound counts from the end, then clamps.
SliceBound(s, i) == IF i < 0 THEN Max(i + Len(s), 0) ELSE Min(i, Len(s))

\* s[a:b]
Slice(s, a, b) ==
    LET lo == SliceBound(s, a)
        hi == SliceBound(s, b)
    IN  IF lo < hi THEN SubSeq(s, lo + 1, hi) ELSE ""

\* s[:b]
SliceTo(s, b) == Slice(s, 0, b)

\* s.find(sub, start): the lowest index >= start where sub occurs, else -1.
PyFind(s, sub, start) ==
    LET hits == {i \in start .. (Len(s) - Len(sub)) :
                    SubSeq(s, i + 1, i + Len(sub)) = sub}
    IN  IF hits = {} THEN -1
        ELSE CHOOSE i \in hits : \A j \in hits : i <= j

\* sub in s
Contains(s, sub) == PyFind(s, sub, 0) >= 0

IsSpace(c) == c \in {" ", "\n", "\t"}

\* s.strip()
Strip(s) ==
    LET keep == {i \in 1 .. Len(s) : ~IsSpace(SubSeq(s, i, i))}
    IN  IF keep = {} THEN ""
        ELSE LET first == CHOOSE i \in keep : \A j \in keep : i <= j
                 last == CHOOSE i \in keep : \A j \in keep : j <= i
             IN  SubSeq(s, first, last)

UpperAlphabet == "ABCDEFGHIJKLMNOPQRSTUVWXYZ"
LowerAlphabet == "abcdefghijklmnopqrstuvwxyz"

LowerChar(c) ==
    LET at == {i \in 1 .. Len(UpperAlphabet) : SubSeq(UpperAlphabet, i, i) = c}
    IN  IF at = {} THEN c
        ELSE LET i == CHOOSE i \in at : TRUE IN SubSeq(LowerAlphabet, i, i)

RECURSIVE Lower(_)
\* s.lower(), one half of s after the other
Lower(s) ==
    IF Len(s) <= 1 THEN LowerChar(s)
    ELSE Lower(SubSeq(s, 1, Len(s) \div 2))
            \o Lower(SubSeq(s, Len(s) \div 2 + 1, Len(s)))

Digits == "0123456789"

IsDigit(c) == Len(c) = 1 /\ Contains(Digits, c)

\* ------------------------------------------------------------------------
\* JSON values and candidate tasks
\* ------------------------------------------------------------------------

\* A JSON object with the keys of a candidate task.  description and
\* context are copied through unread and are left out.
TaskDict(title, confidence, due_date, priority) ==
    [shape |-> "task", title |-> title, confidence |-> confidence,
     due_date |-> due_date, priority |-> priority]
\* A JSON object with one key that is not a candidate's.
JDict(key, value) == [shape |-> "dict", key |-> key, value |-> value]
JList(items) == [shape |-> "list", items |-> items]
JInt(n) == [shape |-> "int", n |-> n]

\* isinstance(v, dict)
IsDict(v) == v.shape \in {"task", "dict"}

\* d.get(key) of a dict d, for the keys the pipeline reads.
Field(d, key) ==
    IF d.shape # "task" THEN Absent
    ELSE CASE key = "title" -> d.title
           [] key = "confidence" -> d.confidence
           [] key = "due_date" -> d.due_date
           [] key = "priority" -> d.priority
           [] OTHER -> Absent

\* The candidate objects the extraction service answers with.  In JSON
\* text the i-th one is written as the i-th letter of CandLetters.
Cands ==
    << TaskDict(Str("Send Q4 report"), Num(85), Null, Absent),
       TaskDict(Str("send q4 report"), Num(95), Str("tomorrow"), Num(2)),
       TaskDict(Str("Review PR"), Num(69), Absent, Num(1)),
       TaskDict(Str("Fix bug"), Num(101), Absent, Num(3)),
       TaskDict(Null, Num(90), Absent, Num(3)),
       TaskDict(Str("Call Bob"), Str("85"), Absent, Absent),
       TaskDict(Str("Plan trip"), Num(70), Num(5), Num(3)),
       TaskDict(Str("  "), Num(90), Absent, Absent),
       TaskDict(Str("Book room"), Absent, Absent, Num(5)),
       TaskDict(Str("Pay rent"), Num(80), Str("2025-12-01"), Num(6)) >>

CandLetters == "ABCDEFGHIJ"

CandSet == {Cands[i] : i \in 1 .. Len(Cands)}

\* Candidate lists of at most MaxTasks candidates.
CandLists == UNION {[1 .. n -> CandSet] : n \in 0 .. MaxTasks}

LetterOf(c) ==
    LET i == CHOOSE i \in 1 .. Len(Cands) : Cands[i] = c
    IN  SubSeq(CandLetters, i, i)

RECURSIVE DumpItems(_)
DumpItems(L) == IF L = <<>> THEN "" ELSE LetterOf(Head(L)) \o DumpItems(Tail(L))

\* json.dumps of a candidate list.
Dump(L) == "[" \o DumpItems(L) \o "]"

\* ------------------------------------------------------------------------
\* json.loads
\* ------------------------------------------------------------------------

First(s) == IF s = "" THEN "" ELSE Head(s)
Last(s) == IF s = "" THEN "" ELSE SubSeq(s, Len(s), Len(s))

\* s without its first and last character.
Inner(s) == Slice(s, 1, Len(s) - 1)

IsCandLetter(c) == Len(c) = 1 /\ Contains(CandLetters, c)

\* A candidate object (its letter) or a one-digit number.
IsAtomText(s) == IsCandLetter(s) \/ IsDigit(s)
AtomValue(s) ==
    IF IsCandLetter(s) THEN Cands[PyFind(CandLetters, s, 0) + 1]
    ELSE JInt(PyFind(Digits, s, 0))

\* A list of atoms: brackets around atoms and whitespace.
IsListText(s) ==
    /\ Len(s) >= 2 /\ First(s) = "[" /\ Last(s) = "]"
    /\ \A i \in 2 .. Len(s) - 1 :
          IsAtomText(SubSeq(s, i, i)) \/ IsSpace(SubSeq(s, i, i))

RECURSIVE AtomValues(_)
\* The atoms of a text of atoms and whitespace, in order.
AtomValues(s) ==
    IF s = "" THEN <<>>
    ELSE IF IsSpace(Head(s)) THEN AtomValues(Tail(s))
    ELSE <<AtomValue(Head(s))>> \o AtomValues(Tail(s))

\* A list of atoms, or an atom.
IsFlatText(s) == IsListText(s) \/ IsAtomText(s)
FlatValue(s) == IF IsListText(s) THEN JList(AtomValues(Inner(s))) ELSE AtomValue(s)

\* The index of the quote that closes the key opening the body b of an
\* object text, else -1.
KeyEnd(b) == PyFind(b, "\"", 1)
\* What follows the key in the body of an object text.
AfterKey(b) == Strip(Slice(b, KeyEnd(b) + 1, Len(b)))

\* The body (what the braces hold) of a one-key object holding a list of
\* atoms or an atom.
IsObjectBody(b) ==
    /\ First(b) = "\"" /\ KeyEnd(b) > 0
    /\ First(AfterKey(b)) = ":"
    /\ IsFlatText(Strip(Slice(AfterKey(b), 1, Len(b))))
ObjectValue(b) ==
    JDict(Slice(b, 1, KeyEnd(b)), FlatValue(Strip(Slice(AfterKey(b), 1, Len(b)))))

IsObjectText(s) ==
    Len(s) >= 2 /\ First(s) = "{" /\ Last(s) = "}" /\ IsObjectBody(Strip(Inner(s)))

\* json.loads of a text without whitespace around it.
LoadStripped(s) ==
    IF IsObjectText(s) THEN [ok |-> TRUE, v |-> ObjectValue(Strip(Inner(s)))]
    ELSE IF IsFlatText(s) THEN [ok |-> TRUE, v |-> FlatValue(s)]
    ELSE [ok |-> FALSE, v |-> JInt(0)]

\* json.loads(text): ok is FALSE where it raises JSONDecodeError.  The
\* texts it reads are an atom, a list of atoms, or a one-key object holding
\* one of these, with whitespace allowed around each.
JsonLoads(text) == LoadStripped(Strip(text))

\* ------------------------------------------------------------------------
\* ClaudeClient.generate_json, after the call returned response_text
\* ------------------------------------------------------------------------

\* response_text[json_start:json_end].strip(), json_end being the next
\* fence after json_start.
BlockFrom(response_text, json_start) ==
    Strip(Slice(response_text, json_start,
                PyFind(response_text, "~~~", json_start)))

\* The text handed to json.loads: the inside of the first fenced block when
\* the response holds a fence, else the response itself.
ExtractCodeBlock(response_text) ==
    IF Contains(response_text, "~~~json")
    THEN BlockFrom(response_text, PyFind(response_text, "~~~json", 0) + 7)
    ELSE IF Contains(response_text, "~~~")
    THEN BlockFrom(response_text, PyFind(response_text, "~~~", 0) + 3)
    ELSE response_text

\* The value generate_json returns, or raised (ValueError) when json.loads
\* raised.
Loaded(r) == [raised |-> ~r.ok, v |-> r.v]

\* generate_json on the response text of generate.
ParseResponse(response_text) == Loaded(JsonLoads(ExtractCodeBlock(response_text)))

\* ------------------------------------------------------------------------
\* Dates
\* ------------------------------------------------------------------------

\* No due date (None).
NoDate == [kind |-> "none", y |-> 0, m |-> 0, d |-> 0, off |-> 0, tod |-> ""]
\* The calendar date y-m-d at midnight.
IsoDate(y, m, d) ==
    [kind |-> "iso", y |-> y, m |-> m, d |-> d, off |-> 0, tod |-> "00:00:00"]
\* datetime.now() + timedelta(days=off), same time of day.
NowPlus(off) ==
    [kind |-> "rel", y |-> 0, m |-> 0, d |-> 0, off |-> off, tod |-> "now"]
\* now.replace(hour=17, minute=0, second=0, microsecond=0)
TodayAt17 ==
    [kind |-> "rel", y |-> 0, m |-> 0, d |-> 0, off |-> 0, tod |-> "17:00:00"]

RECURSIVE ParseInt(_)
\* int(s) of a string of digits.
ParseInt(s) ==
    IF s = "" THEN 0
    ELSE 10 * ParseInt(SubSeq(s, 1, Len(s) - 1))
            + PyFind(Digits, SubSeq(s, Len(s), Len(s)), 0)

AllDigits(s) == \A i \in 1 .. Len(s) : IsDigit(SubSeq(s, i, i))

IsLeap(y) == (y % 4 = 0 /\ y % 100 # 0) \/ y % 400 = 0

DaysInMonth(y, m) ==
    CASE m \in {4, 6, 9, 11} -> 30
      [] m = 2 -> IF IsLeap(y) THEN 29 ELSE 28
      [] OTHER -> 31

\* datetime.fromisoformat(v) for a date written YYYY-MM-DD: raised stands
\* for ValueError (not such a date) or TypeError (not a string).
FromIsoFormat(v) ==
    LET s == v.s
        y == ParseInt(SubSeq(s, 1, 4))
        m == ParseInt(SubSeq(s, 6, 7))
        d == ParseInt(SubSeq(s, 9, 10))
        wellFormed ==
            /\ v.k = "str"
            /\ Len(s) = 10
            /\ AllDigits(SubSeq(s, 1, 4)) /\ SubSeq(s, 5, 5) = "-"
            /\ AllDigits(SubSeq(s, 6, 7)) /\ SubSeq(s, 8, 8) = "-"
            /\ AllDigits(SubSeq(s, 9, 10))
            /\ y >= 1 /\ m \in 1 .. 12 /\ d \in 1 .. DaysInMonth(y, m)
    IN  IF wellFormed THEN [raised |-> FALSE, date |-> IsoDate(y, m, d)]
        ELSE [raised |-> TRUE, date |-> NoDate]

\* Days from now to datetime.max, past which now + timedelta overflows.
DaysToDateMax == (9999 - 2025) * 365

\* now + timedelta(days=days): OverflowError past datetime.max.
AddDays(days) ==
    IF days > DaysToDateMax THEN [raised |-> TRUE, date |-> NoDate]
    ELSE [raised |-> FALSE, date |-> NowPlus(days)]

\* The length of the run of digits of s from index i (0-based).
RECURSIVE DigitRun(_, _)
DigitRun(s, i) == IF IsDigit(CharAt(s, i)) THEN 1 + DigitRun(s, i + 1) ELSE 0

\* re.search(r"in (\d+) days?", s): the digits of the leftmost match, or ""
\* when nothing matches.
SearchInDays(s) ==
    LET hits == {i \in 0 .. Len(s) :
                    /\ Slice(s, i, i + 3) = "in "
                    /\ DigitRun(s, i + 3) > 0
                    /\ LET e == i + 3 + DigitRun(s, i + 3)
                       IN  Slice(s, e, e + 4) = " day"}
    IN  IF hits = {} THEN ""
        ELSE LET i == CHOOSE i \in hits : \A j \in hits : i <= j
             IN  Slice(s, i + 3, i + 3 + DigitRun(s, i + 3))

\* _parse_relative_date looking for "next week" before "tomorrow", which
\* C20 excludes.
ParseRelativeDateWeekFirst(v) ==
    LET date_str_lower == Strip(Lower(v.s))
    IN  IF v.k # "str" THEN [raised |-> TRUE, date |-> NoDate]
        ELSE IF Contains(date_str_lower, "next week") THEN AddDays(7)
        ELSE IF Contains(date_str_lower, "tomorrow") THEN AddDays(1)
        ELSE IF Contains(date_str_lower, "eod")
                \/ Contains(date_str_lower, "end of day")
        THEN [raised |-> FALSE, date |-> TodayAt17]
        ELSE IF Contains(date_str_lower, "next month") THEN AddDays(30)
        ELSE IF SearchInDays(date_str_lower) # ""
        THEN AddDays(ParseInt(SearchInDays(date_str_lower)))
        ELSE AddDays(1)

\* _parse_relative_date(date_str); raised stands for AttributeError (not a
\* string) or OverflowError.
ParseRelativeDate(v) ==
    LET date_str_lower == Strip(Lower(v.s))
    IN  IF v.k # "str" THEN [raised |-> TRUE, date |-> NoDate]
        ELSE IF Contains(date_str_lower, "tomorrow") THEN AddDays(1)
        ELSE IF Contains(date_str_lower, "next week") THEN AddDays(7)
        ELSE IF Contains(date_str_lower, "eod")
                \/ Contains(date_str_lower, "end of day")
        THEN [raised |-> FALSE, date |-> TodayAt17]
        ELSE IF Contains(date_str_lower, "next month") THEN AddDays(30)
        ELSE IF SearchInDays(date_str_lower) # ""
        THEN AddDays(ParseInt(SearchInDays(date_str_lower)))
        ELSE AddDays(1)

\* A resolution that consults the relative rules before the ISO format,
\* which C22 excludes.
ResolveDueDateRelativeFirst(task_data) ==
    LET due == Get(Field(task_data, "due_date"), Null)
    IN  IF ~Truthy(due) THEN [raised |-> FALSE, date |-> NoDate]
        ELSE IF ~ParseRelativeDate(due).raised THEN ParseRelativeDate(due)
        ELSE FromIsoFormat(due)

\* The due date of a candidate as generate_tasks resolves it.
ResolveDueDate(task_data) ==
    LET due == Get(Field(task_data, "due_date"), Null)
    IN  IF ~Truthy(due) THEN [raised |-> FALSE, date |-> NoDate]
        ELSE IF ~FromIsoFormat(due).raised THEN FromIsoFormat(due)
        ELSE ParseRelativeDate(due)

\* ------------------------------------------------------------------------
\* The Task model and the candidate validator
\* ------------------------------------------------------------------------

TaskStatus == {"todo", "in_progress", "done"}

\* Task.validate_status
ValidStatus(value) == value \in TaskStatus

\* A confidence validator that lets every number by, which C17 excludes.
ValidConfidenceScoreAnyNumber(value) == value.k = "num"

\* Task.validate_confidence_score: FALSE where it raises (ValueError out of
\* range, TypeError for a value that is no number).
ValidConfidenceScore(value) ==
    value.k = "num" /\ ~(value.n < 0 \/ value.n > 100)

\* A priority validator whose upper end is off by one, which C27 excludes.
ValidPriorityUpToSix(value) ==
    value.k = "null" \/ (value.k = "num" /\ ~(value.n < 1 \/ value.n > 6))

\* Task.validate_priority
ValidPriority(value) ==
    value.k = "null" \/ (value.k = "num" /\ ~(value.n < 1 \/ value.n > 5))

\* String(500), the title column.
MaxTitleLen == 500

\* A status other than todo at creation, which C28 excludes.
CreationStatusDone == "done"

\* `status="todo"`
CreationStatus == "todo"

\* Task(...) as generate_tasks builds it; id is 0 until the row is read back.
NewTask(task_data, source, message_id) ==
    LET title == Field(task_data, "title")
        priority == Get(Field(task_data, "priority"), Num(3))
        confidence == Get(Field(task_data, "confidence"), Num(50))
        due == ResolveDueDate(task_data)
        ok == /\ ~due.raised
              /\ title.k = "str"
              /\ ValidStatus(CreationStatus)
              /\ ValidPriority(priority)
              /\ ValidConfidenceScore(confidence)
    IN  [raised |-> ~ok,
         task |-> [id |-> 0,
                   title |-> SliceTo(title.s, MaxTitleLen),
                   status |-> CreationStatus,
                   priority |-> priority,
                   confidence_score |-> confidence.n,
                   source_type |-> source,
                   source_id |-> message_id,
                   due_date |-> due.date]]

\* A check that drops a confidence equal to the threshold too, which C12
\* excludes.
BelowThresholdInclusive(confidence, threshold) == confidence <= threshold

\* `confidence < settings.MIN_CONFIDENCE_THRESHOLD`
BelowThreshold(confidence, threshold) == confidence < threshold

\* Titles remembered as written, which C11 excludes.
TitleLowerExact(title) == title

\* title.lower(), under which a title is remembered as seen
TitleLower(title) == Lower(title)

\* validated.append(task_data)
\* Variants that C14 and C13 exclude: the task put in front, and the task
\* kept by its title alone.
AppendValidatedInFront(validated, task_data) == <<task_data>> \o validated
AppendValidatedTitleOnly(validated, task_data) ==
    Append(validated, TaskDict(task_data.title, Absent, Absent, Absent))
AppendValidated(validated, task_data) == Append(validated, task_data)

RECURSIVE ValidateFrom(_, _, _, _)
\* The loop of validate_tasks from the i-th extracted task on; raised where
\* a comparison or .strip() raises (TypeError, AttributeError).
ValidateFrom(tasks, i, threshold, acc) ==
    IF i > Len(tasks) THEN [raised |-> FALSE, validated |-> acc.validated]
    ELSE
      LET task_data == tasks[i]
          confidence == Get(Field(task_data, "confidence"), Num(0))
          rawTitle == Get(Field(task_data, "title"), Str(""))
          title == Strip(rawTitle.s)
          title_lower == TitleLower(title)
      IN  IF confidence.k # "num" THEN [raised |-> TRUE, validated |-> <<>>]
          ELSE IF BelowThreshold(confidence.n, threshold)
          THEN ValidateFrom(tasks, i + 1, threshold, acc)
          ELSE IF rawTitle.k # "str" THEN [raised |-> TRUE, validated |-> <<>>]
          ELSE IF title = "" THEN ValidateFrom(tasks, i + 1, threshold, acc)
          ELSE IF title_lower \in acc.seen_titles
          THEN ValidateFrom(tasks, i + 1, threshold, acc)
          ELSE ValidateFrom(tasks, i + 1, threshold,
                            [validated |-> AppendValidated(acc.validated, task_data),
                             seen_titles |-> acc.seen_titles \cup {title_lower}])

\* validate_tasks on a list of extracted tasks.
ValidateTasks(tasks, threshold) ==
    ValidateFrom(tasks, 1, threshold, [validated |-> <<>>, seen_titles |-> {}])

\* ------------------------------------------------------------------------
\* What the external services answer
\* ------------------------------------------------------------------------

\* Texts the extraction service returns for a candidate list L.
Bare(L) == Dump(L)
Fenced(tag, L) == "~~~" \o tag \o "\n" \o Dump(L) \o "\n~~~"
InProse(text) == "Here are the tasks:\n" \o text \o "\nDone."
Wrapped(L) == "{\"tasks\": " \o Dump(L) \o "}"

ShapedResponses(L) ==
    {Bare(L), Fenced("json", L), Fenced("", L), Fenced("python", L),
     InProse(Fenced("json", L)), InProse(Fenced("", L)), Wrapped(L)}

\* Answers that are no candidate list: prose, a number, an object without
\* `tasks`, one bare candidate object, a list or a `tasks` entry holding a
\* number, and a fenced block cut off before its closing fence.
OtherResponses ==
    {"", "I found no tasks.", "7", "{\"result\": []}", "A", "[7]",
     "{\"tasks\": 7}", "~~~json\n[A]"}

Responses == OtherResponses \cup UNION {ShapedResponses(L) : L \in CandLists}

\* What a classification request may come to: a reply of the model, a
\* failed request, or a reply without the text.
OllamaReplies == {"yes", "Yes, it is.", "no", "No.", "Probably not - yes?"}
OllamaOutcomes ==
    {[kind |-> "reply", text |-> t] : t \in OllamaReplies}
      \cup {[kind |-> "request_failed", text |-> ""],
            [kind |-> "bad_reply", text |-> ""]}

\* ------------------------------------------------------------------------
\* State
\* ------------------------------------------------------------------------

VARIABLES
    settings,       \* the Settings the pipeline reads
    state,          \* TaskInferenceState of the run
    node,           \* the graph node that runs next, "END" or "raised"
    at,             \* the position inside the running node
    events,         \* history: the nodes started and returned, in order
    clients,        \* _claude_client and _ollama_client
    calls,          \* history: how often each collaborator was called
    classified,     \* history: how the classification went
    tries,          \* history: the outcome of each attempt of generate
    response_text,  \* the response generate returned, until it is parsed
    loop,           \* generate_tasks' locals: position and created_tasks
    db,             \* the Session: objects added, and the rows committed
    result,         \* what infer_tasks_from_text gave its caller
    runs,           \* the requests served at once, each with its own run
    answer          \* what the tasks endpoint called last answered

vars == <<settings, state, node, at, events, clients, calls, classified,
          tries, response_text, loop, db, result, runs, answer>>

\* config.py: MIN_CONFIDENCE_THRESHOLD
MIN_CONFIDENCE_THRESHOLD == 70

\* Thresholds a deployment may configure.
Thresholds == {0, MIN_CONFIDENCE_THRESHOLD}

\* stop_after_attempt(3)
MaxAttempts == 3

\* The nodes and edges create_task_inference_graph builds.
EntryPoint == "analyze"
FinishPoint == "generate"
Edge(n) ==
    CASE n = "analyze" -> "extract"
      [] n = "extract" -> "validate"
      [] n = "validate" -> "generate"

\* The node to run after n returned.
Successor(n) == IF n = FinishPoint THEN "END" ELSE Edge(n)

Started(n) == [node |-> n, ev |-> "start"]
Returned(n) == [node |-> n, ev |-> "return"]
Raised(n) == [node |-> n, ev |-> "raise"]

\* initial_state of infer_tasks_from_text
InitialState ==
    [content |-> "Can you send me the Q4 report by tomorrow?",
     source |-> "manual_text",
     message_id |-> 1,
     is_actionable |-> FALSE,
     extracted_tasks |-> <<>>,
     validated_tasks |-> <<>>,
     confidence_scores |-> <<>>,
     created_tasks |-> <<>>,
     errors |-> <<>>]

\* A row of the tasks table from before the run.
ExistingTask ==
    [id |-> 1, title |-> "Water the plants", status |-> "done",
     priority |-> Num(3), confidence_score |-> 100, source_type |-> "manual",
     source_id |-> 0, due_date |-> NoDate]

\* No endpoint of the tasks has been called.
NoAnswer == [status_code |-> 0]

NoCalls ==
    [ollama_init |-> 0, classify |-> 0, claude_init |-> 0, generate_json |-> 0,
     service |-> 0, add |-> 0, commit |-> 0, rollback |-> 0]

Init ==
    /\ settings \in [USE_LOCAL_LLM_FOR_CLASSIFICATION : BOOLEAN,
                     ANTHROPIC_API_KEY : BOOLEAN,
                     MIN_CONFIDENCE_THRESHOLD : Thresholds]
    /\ state = InitialState
    /\ node = EntryPoint
    /\ at = "enter"
    /\ events = <<>>
    /\ clients = [_claude_client |-> "None", _ollama_client |-> "None"]
    /\ calls = NoCalls
    /\ classified = "pending"
    /\ tries = <<>>
    /\ response_text = ""
    /\ loop = [i |-> 1, created_tasks |-> <<>>]
    /\ db = [new |-> <<>>, rows |-> <<ExistingTask>>]
    /\ result = [kind |-> "pending", tasks |-> <<>>]
    /\ runs = <<>>
    /\ answer = NoAnswer

\* ------------------------------------------------------------------------
\* Node 1: analyze_message
\* ------------------------------------------------------------------------

\* OllamaClient.generate: any failure is raised as ConnectionError.
OllamaGenerate(outcome) ==
    [raised |-> outcome.kind # "reply", text |-> outcome.text]

\* is_actionable answering False when its generate call raised: a
\* fail-closed classifier, which C2 excludes.
OllamaIsActionableFailClosed(response) ==
    IF response.raised THEN FALSE
    ELSE Contains(SliceTo(Lower(response.text), 10), "yes")

\* OllamaClient.is_actionable on what its generate call came to: the
\* verdict read off the response, True when the call raised.
OllamaIsActionable(response) ==
    IF response.raised THEN TRUE
    ELSE Contains(SliceTo(Lower(response.text), 10), "yes")

\* analyze_message storing False when classification is off, which C3
\* excludes.
AnalyzeFlagOffIsFalse(useLocal, raised, verdict) ==
    IF raised THEN TRUE
    ELSE IF useLocal THEN verdict ELSE FALSE

\* The flag analyze_message stores: True when the try block raised or
\* classification is off, else the client's verdict.
AnalyzeFlag(useLocal, raised, verdict) ==
    IF raised THEN TRUE
    ELSE IF useLocal THEN verdict ELSE TRUE

\* get_ollama_client()
GetOllamaClient(c) ==
    IF c._ollama_client = "None"
    THEN [c EXCEPT !._ollama_client = "OllamaClient"] ELSE c

\* analyze_message stores the flag and returns.
AnalyzeReturns(flag, how) ==
    /\ state' = [state EXCEPT !.is_actionable = flag]
    /\ classified' = how
    /\ events' = events \o <<Started("analyze"), Returned("analyze")>>
    /\ node' = Successor("analyze")
    /\ at' = "enter"
    /\ UNCHANGED <<answer, runs, settings, tries, response_text, loop, db, result>>

\* analyze_message with classification switched off.
AnalyzeDisabled ==
    /\ node = "analyze"
    /\ ~settings.USE_LOCAL_LLM_FOR_CLASSIFICATION
    /\ AnalyzeReturns(AnalyzeFlag(FALSE, FALSE, FALSE), "disabled")
    /\ UNCHANGED <<clients, calls>>

\* analyze_message when fetching the client raises.
AnalyzeNoClient ==
    /\ node = "analyze"
    /\ settings.USE_LOCAL_LLM_FOR_CLASSIFICATION
    /\ AnalyzeReturns(AnalyzeFlag(TRUE, TRUE, FALSE), "no_client")
    /\ UNCHANGED <<clients, calls>>

\* analyze_message asking the classification client.
AnalyzeClassifies ==
    /\ node = "analyze"
    /\ settings.USE_LOCAL_LLM_FOR_CLASSIFICATION
    /\ clients' = GetOllamaClient(clients)
    /\ calls' = [calls EXCEPT
                   !.ollama_init = IF clients._ollama_client = "None"
                                   THEN @ + 1 ELSE @,
                   !.classify = @ + 1]
    /\ \E outcome \in OllamaOutcomes :
         AnalyzeReturns(
             AnalyzeFlag(TRUE, FALSE, OllamaIsActionable(OllamaGenerate(outcome))),
             outcome.kind)

\* ------------------------------------------------------------------------
\* Node 2: extract_tasks
\* ------------------------------------------------------------------------

\* The diagnostic takes the place of the ones recorded before it.
AppendErrorOverwrites(errors, message) == <<message>>

\* `state.get("errors", []) + [message]`
AppendError(errors, message) == errors \o <<message>>

\* An except branch that also takes back the verdict of analyze_message,
\* which C31 excludes.
ExtractionFailedClearsFlag(st) ==
    [st EXCEPT !.is_actionable = FALSE,
               !.extracted_tasks = <<>>,
               !.errors = AppendError(st.errors, "Task extraction failed")]

\* The except branch of extract_tasks.
ExtractionFailed(st) ==
    [st EXCEPT !.extracted_tasks = <<>>,
               !.errors = AppendError(st.errors, "Task extraction failed")]

\* extract_tasks without its early return, which C4 excludes.
SkipExtractionNever(st) == FALSE

\* `if not state["is_actionable"]`
SkipExtraction(st) == ~st.is_actionable

\* A getter that does not keep the client it constructs, which C24
\* excludes.
GetClaudeClientForgets(c) == c

\* get_claude_client()
GetClaudeClient(c) ==
    IF c._claude_client = "None"
    THEN [c EXCEPT !._claude_client = "ClaudeClient"] ELSE c

\* extract_tasks up to the call of generate_json: nothing to do for content
\* that is not actionable, else the shared client is fetched and called.
ExtractEnter ==
    /\ node = "extract" /\ at = "enter"
    /\ IF SkipExtraction(state)
       THEN /\ state' = [state EXCEPT !.extracted_tasks = <<>>]
            /\ events' = events \o <<Started("extract"), Returned("extract")>>
            /\ node' = Successor("extract")
            /\ UNCHANGED <<at, clients, calls>>
       ELSE /\ clients' = GetClaudeClient(clients)
            /\ calls' = [calls EXCEPT
                           !.claude_init = IF clients._claude_client = "None"
                                           THEN @ + 1 ELSE @,
                           !.generate_json = @ + 1]
            /\ at' = "call"
            /\ events' = Append(events, Started("extract"))
            /\ UNCHANGED <<state, node>>
    /\ UNCHANGED <<answer, runs, settings, classified, tries, response_text, loop, db, result>>

\* A retry policy stopping one attempt later, which C9 excludes.
RetryAgainOnceMore(attempt_number) == attempt_number <= MaxAttempts

\* Whether tenacity runs another attempt after the attempt_number-th failed.
RetryAgain(attempt_number) == attempt_number < MaxAttempts

\* An attempt of ClaudeClient.generate failed: tenacity runs the next one,
\* or reraises after the last and extract_tasks records the failure.
AttemptFailed(how) ==
    /\ tries' = Append(tries, how)
    /\ IF RetryAgain(Len(tries) + 1)
       THEN UNCHANGED <<state, node, at, events>>
       ELSE /\ state' = ExtractionFailed(state)
            /\ events' = Append(events, Returned("extract"))
            /\ node' = Successor("extract")
            /\ at' = "enter"

\* generate without an API key: ValueError before any request.
GenerateNoClient ==
    /\ node = "extract" /\ at = "call"
    /\ ~settings.ANTHROPIC_API_KEY
    /\ AttemptFailed("no_client")
    /\ UNCHANGED <<answer, runs, settings, clients, calls, classified, response_text, loop,
                   db, result>>

\* generate: the request to the service fails.
GenerateRequestFails ==
    /\ node = "extract" /\ at = "call"
    /\ settings.ANTHROPIC_API_KEY
    /\ calls' = [calls EXCEPT !.service = @ + 1]
    /\ AttemptFailed("failed")
    /\ UNCHANGED <<answer, runs, settings, clients, classified, response_text, loop, db,
                   result>>

\* generate: the service answers with a message whose content has no
\* first block, or a first block without text: response.content[0].text
\* raises inside generate, which tenacity takes for a failed attempt.  The
\* model lets the first attempt of a run end this way, and no later one.
GenerateNoText ==
    /\ node = "extract" /\ at = "call"
    /\ settings.ANTHROPIC_API_KEY
    /\ tries = <<>>
    /\ calls' = [calls EXCEPT !.service = @ + 1]
    /\ AttemptFailed("no_text")
    /\ UNCHANGED <<answer, runs, settings, clients, classified, response_text, loop, db,
                   result>>

\* generate: the service answers, which ends the retrying.
GenerateReturns ==
    /\ node = "extract" /\ at = "call"
    /\ settings.ANTHROPIC_API_KEY
    /\ calls' = [calls EXCEPT !.service = @ + 1]
    /\ tries' = Append(tries, "ok")
    /\ \E text \in Responses : response_text' = text
    /\ at' = "parse"
    /\ UNCHANGED <<answer, runs, settings, state, node, events, clients, classified, loop,
                   db, result>>

\* The `tasks` extract_tasks picks out of the parsed response.
PickTasks(response_json) ==
    IF response_json.shape = "list" THEN response_json
    ELSE IF IsDict(response_json) /\ response_json.shape = "dict"
            /\ response_json.key = "tasks"
    THEN response_json.value
    ELSE JList(<<>>)

\* Whether `[task.get("confidence", 50) for task in tasks]` runs through:
\* tasks can be iterated and each element has .get.
Readable(tasks) ==
    tasks.shape = "list" /\ \A i \in 1 .. Len(tasks.items) : IsDict(tasks.items[i])

\* confidence_scores for the tasks
Scores(items) ==
    [i \in 1 .. Len(items) |-> Get(Field(items[i], "confidence"), Num(50))]

\* The try block of extract_tasks after generate_json returned.
StoreTasks(st, tasks) ==
    IF Readable(tasks)
    THEN [st EXCEPT !.extracted_tasks = tasks.items,
                    !.confidence_scores = Scores(tasks.items)]
    ELSE ExtractionFailed(st)

\* extract_tasks from the result of generate_json on.
AfterGenerateJson(st, r) ==
    IF r.raised THEN ExtractionFailed(st) ELSE StoreTasks(st, PickTasks(r.v))

\* The rest of generate_json and of extract_tasks.
ExtractParse ==
    /\ node = "extract" /\ at = "parse"
    /\ state' = AfterGenerateJson(state, ParseResponse(response_text))
    /\ response_text' = ""
    /\ events' = Append(events, Returned("extract"))
    /\ node' = Successor("extract")
    /\ at' = "enter"
    /\ UNCHANGED <<answer, runs, settings, clients, calls, classified, tries, loop, db,
                   result>>

\* ------------------------------------------------------------------------
\* Node 3: validate_tasks
\* ------------------------------------------------------------------------

\* validate_tasks returns with the validated tasks stored.
ValidateReturns ==
    /\ node = "validate"
    /\ ~ValidateTasks(state.extracted_tasks,
                      settings.MIN_CONFIDENCE_THRESHOLD).raised
    /\ state' = [state EXCEPT !.validated_tasks =
                     ValidateTasks(state.extracted_tasks,
                                   settings.MIN_CONFIDENCE_THRESHOLD).validated]
    /\ events' = events \o <<Started("validate"), Returned("validate")>>
    /\ node' = Successor("validate")
    /\ at' = "enter"
    /\ UNCHANGED <<answer, runs, settings, clients, calls, classified, tries, response_text,
                   loop, db, result>>

\* validate_tasks raises: the exception leaves the graph, and
\* infer_tasks_from_text with it.
ValidateRaises ==
    /\ node = "validate"
    /\ ValidateTasks(state.extracted_tasks,
                     settings.MIN_CONFIDENCE_THRESHOLD).raised
    /\ events' = events \o <<Started("validate"), Raised("validate")>>
    /\ node' = "raised"
    /\ result' = [kind |-> "raised", tasks |-> <<>>]
    /\ at' = "enter"
    /\ UNCHANGED <<answer, runs, settings, state, clients, calls, classified, tries,
                   response_text, loop, db>>

\* ------------------------------------------------------------------------
\* Node 4: generate_tasks
\* ------------------------------------------------------------------------

\* A loop body that keeps the task twice, which C15 excludes.
ItemCreatedTwice(lp, task) ==
    [i |-> lp.i + 1,
     created_tasks |-> Append(Append(lp.created_tasks, task), task)]

\* The try block of the loop ran through: the task is added and kept.
ItemCreated(lp, task) ==
    [i |-> lp.i + 1, created_tasks |-> Append(lp.created_tasks, task)]

\* An except branch that leaves the loop, which C7 excludes.
ItemFailedLeavesLoop(lp) == [lp EXCEPT !.i = Len(state.validated_tasks) + 1]

\* The except branch of the loop: the loop goes on with the next candidate.
ItemFailed(lp) == [lp EXCEPT !.i = @ + 1]

\* The body of the loop for one validated candidate whose Task is built:
\* it is added to the session and kept.
GenerateItemCreated ==
    /\ node = "generate"
    /\ loop.i <= Len(state.validated_tasks)
    /\ ~NewTask(state.validated_tasks[loop.i], state.source,
                state.message_id).raised
    /\ db' = [db EXCEPT !.new =
                Append(@, NewTask(state.validated_tasks[loop.i], state.source,
                                  state.message_id).task)]
    /\ calls' = [calls EXCEPT !.add = @ + 1]
    /\ loop' = ItemCreated(loop, NewTask(state.validated_tasks[loop.i],
                                         state.source, state.message_id).task)
    /\ events' = IF at = "enter" THEN Append(events, Started("generate"))
                 ELSE events
    /\ at' = "loop"
    /\ UNCHANGED <<answer, runs, settings, state, node, clients, classified, tries,
                   response_text, result>>

\* The body of the loop for one validated candidate whose Task cannot be
\* built: the failure is recorded.
GenerateItemFailed ==
    /\ node = "generate"
    /\ loop.i <= Len(state.validated_tasks)
    /\ NewTask(state.validated_tasks[loop.i], state.source,
               state.message_id).raised
    /\ state' = [state EXCEPT
                   !.errors = AppendError(@, "Failed to create task")]
    /\ loop' = ItemFailed(loop)
    /\ events' = IF at = "enter" THEN Append(events, Started("generate"))
                 ELSE events
    /\ at' = "loop"
    /\ UNCHANGED <<answer, runs, settings, node, clients, calls, classified, tries,
                   response_text, db, result>>

\* A column default outside the range of the priority, which C36 excludes.
ColumnDefaultsZero(task) ==
    IF task.priority = Null THEN [task EXCEPT !.priority = Num(0)] ELSE task

\* priority = Column(Integer, nullable=True, default=3): an attribute that
\* is None is left out of the INSERT, and the column's default is stored.
ColumnDefaults(task) ==
    IF task.priority = Null THEN [task EXCEPT !.priority = Num(3)] ELSE task

\* The largest id of the table, 0 for an empty one.
MaxId(rows) ==
    IF rows = <<>> THEN 0
    ELSE LET ids == {rows[i].id : i \in 1 .. Len(rows)}
         IN  CHOOSE m \in ids : \A n \in ids : n <= m

\* The rows a flush writes for the added objects, which is how the objects
\* read once refreshed: ids follow the table's.
Flushed(rows, new) ==
    [i \in 1 .. Len(new) |-> [ColumnDefaults(new[i]) EXCEPT !.id = MaxId(rows) + i]]

\* A commit that reports success and writes nothing, which C23 excludes.
CommittedNothing(session) == [new |-> <<>>, rows |-> session.rows]

\* The session after commit() succeeded.
Committed(session) ==
    [new |-> <<>>, rows |-> session.rows \o Flushed(session.rows, session.new)]

\* A rollback that writes the added objects all the same, which C6
\* excludes.
RolledBackWritten(session) ==
    [new |-> <<>>, rows |-> session.rows \o Flushed(session.rows, session.new)]

\* A failed commit after which the added objects stay pending in the
\* session, which C25 excludes.
RolledBackStillPending(session) == session

\* The session after commit() failed and rollback(): the added objects are
\* dropped.
RolledBack(session) == [new |-> <<>>, rows |-> session.rows]

\* A commit step that hands back every row of the table, which C16
\* excludes.
CreatedAfterCommitAllRows(session, created, ok) ==
    IF ok THEN session.rows \o Flushed(session.rows, created) ELSE <<>>

\* created_tasks after the commit step: the refreshed objects, or nothing.
CreatedAfterCommit(session, created, ok) ==
    IF ok THEN Flushed(session.rows, created) ELSE <<>>

\* generate_tasks stores created_tasks and returns.
GenerateReturnsState(created, errs) ==
    /\ state' = [state EXCEPT !.created_tasks = created, !.errors = errs]
    /\ loop' = [i |-> 1, created_tasks |-> <<>>]
    /\ events' = (IF at = "enter" THEN Append(events, Started("generate"))
                  ELSE events) \o <<Returned("generate")>>
    /\ node' = Successor("generate")
    /\ at' = "enter"
    /\ UNCHANGED <<answer, runs, settings, clients, classified, tries, response_text, result>>

\* After the loop: the commit succeeds and the objects are refreshed.  A
\* refresh that fails after the commit went through is GenerateRefreshFails,
\* which the specification of the whole pipeline leaves out, as it does a
\* rollback that fails.
GenerateCommit ==
    /\ node = "generate"
    /\ loop.i > Len(state.validated_tasks)
    /\ db' = Committed(db)
    /\ calls' = [calls EXCEPT !.commit = @ + 1]
    /\ GenerateReturnsState(CreatedAfterCommit(db, loop.created_tasks, TRUE),
                            state.errors)

\* After the loop: the commit fails, the session is rolled back and the
\* failure recorded.
GenerateCommitFails ==
    /\ node = "generate"
    /\ loop.i > Len(state.validated_tasks)
    /\ db' = RolledBack(db)
    /\ calls' = [calls EXCEPT !.commit = @ + 1, !.rollback = @ + 1]
    /\ GenerateReturnsState(CreatedAfterCommit(db, loop.created_tasks, FALSE),
                            AppendError(state.errors, "Database commit failed"))

\* After the loop: the commit goes through and db.refresh raises for one of
\* the created tasks.  The except clause around both takes it for a failed
\* commit: rollback is called, with nothing left to roll back, the failure
\* is recorded and created_tasks emptied, and the rows stay written.
GenerateRefreshFails ==
    /\ node = "generate"
    /\ loop.i > Len(state.validated_tasks)
    /\ loop.created_tasks # <<>>
    /\ db' = RolledBack(Committed(db))
    /\ calls' = [calls EXCEPT !.commit = @ + 1, !.rollback = @ + 1]
    /\ GenerateReturnsState(CreatedAfterCommit(db, loop.created_tasks, FALSE),
                            AppendError(state.errors, "Database commit failed"))

\* infer_tasks_from_text returns the created tasks of the final state.
Return ==
    /\ node = "END"
    /\ result.kind = "pending"
    /\ result' = [kind |-> "returned", tasks |-> state.created_tasks]
    /\ UNCHANGED <<answer, runs, settings, state, node, at, events, clients, calls,
                   classified, tries, response_text, loop, db>>

\* What the infer_tasks endpoint answers for what infer_tasks_from_text
\* gave it, its own commit of the message going through: the tasks with
\* their number, or HTTP 500 when the call raised.
InferTasksEndpoint(r) ==
    IF r.kind = "raised"
    THEN [status_code |-> 500, error_code |-> "INFERENCE_FAILED",
          message |-> "Failed to infer tasks", tasks_inferred |-> 0,
          tasks |-> <<>>]
    ELSE [status_code |-> 200, error_code |-> "",
          message |-> "Tasks inferred successfully",
          tasks_inferred |-> Len(r.tasks), tasks |-> r.tasks]

Next ==
    \/ AnalyzeDisabled
    \/ AnalyzeNoClient
    \/ AnalyzeClassifies
    \/ ExtractEnter
    \/ GenerateNoClient
    \/ GenerateRequestFails
    \/ GenerateNoText
    \/ GenerateReturns
    \/ ExtractParse
    \/ ValidateReturns
    \/ ValidateRaises
    \/ GenerateItemCreated
    \/ GenerateItemFailed
    \/ GenerateCommit
    \/ GenerateCommitFails
    \/ Return

Spec == Init /\ [][Next]_vars

\* The steps graph.ainvoke waits for: an external call returning or failing,
\* or the run going over to the next node.
Awaited ==
    \/ AnalyzeDisabled
    \/ AnalyzeNoClient
    \/ AnalyzeClassifies
    \/ ExtractEnter
    \/ GenerateNoClient
    \/ GenerateRequestFails
    \/ GenerateNoText
    \/ GenerateReturns
    \/ GenerateCommit
    \/ GenerateCommitFails
    \/ Return

\* The steps in which a node computes on what it has: parsing the response,
\* validating the candidates, building one task.
Computes ==
    \/ ExtractParse
    \/ ValidateReturns
    \/ ValidateRaises
    \/ GenerateItemCreated
    \/ GenerateItemFailed

\* Where a computing step can be taken.
Computing ==
    \/ node = "extract" /\ at = "parse"
    \/ node = "validate"
    \/ node = "generate" /\ loop.i <= Len(state.validated_tasks)

\* A run whose every external call returns or fails: graph.ainvoke is
\* awaited until the graph is through, so the run does not stay for ever
\* where it is while infer_tasks_from_text has neither returned nor raised.
\* Weak fairness of the awaited steps, and of the computing steps with the
\* states that enable them written out.
FairSpec ==
    /\ Spec
    /\ WF_vars(Awaited)
    /\ []<>~Computing \/ []<><<Computes>>_vars

\* ------------------------------------------------------------------------
\* validate_tasks on its own
\* ------------------------------------------------------------------------

\* Longest extracted list handed to validate_tasks on its own.
MaxExtracted == 2

\* Titles and confidences of extracted tasks: titles that differ in case
\* or surrounding whitespace only, a blank and a null title; confidences
\* at and just below each threshold.
ValidatorTitles ==
    {Str("Send it"), Str("send it"), Str(" SEND IT "), Str("Call Bob"),
     Str("  "), Null}
ValidatorConfidences == {Num(0 - 1), Num(0), Num(69), Num(70)}
ValidatorThresholds == {0, MIN_CONFIDENCE_THRESHOLD}

ValidatorCands ==
    {TaskDict(title, confidence, Absent, Absent) :
        title \in ValidatorTitles, confidence \in ValidatorConfidences}

ValidatorLists == UNION {[1 .. n -> ValidatorCands] : n \in 0 .. MaxExtracted}

\* The run at the entry of validate_tasks, extract_tasks having stored the
\* list `tasks` the extraction service answered with at its first attempt.
EnteringValidate(tasks) ==
    /\ state = StoreTasks([InitialState EXCEPT !.is_actionable = TRUE],
                          JList(tasks))
    /\ node = "validate"
    /\ at = "enter"
    /\ events = <<Started("analyze"), Returned("analyze"),
                  Started("extract"), Returned("extract")>>
    /\ clients = [_claude_client |-> "ClaudeClient", _ollama_client |-> "None"]
    /\ calls = [NoCalls EXCEPT !.claude_init = 1, !.generate_json = 1,
                               !.service = 1]
    /\ classified = "disabled"
    /\ tries = <<"ok">>
    /\ response_text = ""
    /\ loop = [i |-> 1, created_tasks |-> <<>>]
    /\ db = [new |-> <<>>, rows |-> <<ExistingTask>>]
    /\ result = [kind |-> "pending", tasks |-> <<>>]
    /\ runs = <<>>
    /\ answer = NoAnswer

InitValidate ==
    /\ settings \in [USE_LOCAL_LLM_FOR_CLASSIFICATION : {FALSE},
                     ANTHROPIC_API_KEY : {TRUE},
                     MIN_CONFIDENCE_THRESHOLD : ValidatorThresholds]
    /\ \E tasks \in ValidatorLists : EnteringValidate(tasks)

NextValidate ==
    \/ ValidateReturns
    \/ ValidateRaises

ValidateSpec == InitValidate /\ [][NextValidate]_vars

\* ------------------------------------------------------------------------
\* validate_tasks and generate_tasks on due dates and confidences
\* ------------------------------------------------------------------------

\* Longest list of candidates with due dates and confidences.
MaxValidated == 2

\* Due-date expressions of candidates: each relative pattern alone, in
\* another case and inside other text, several patterns at once, texts no
\* pattern matches, and an ISO date.
DueExpressions ==
    {"tomorrow", "next week", "EOD", "by end of day", "next month",
     "in 3 days", "In 1 Day", "whenever", "tomorrow or next week",
     "next week, EOD", "eod next month", "next month, in 5 days",
     "in 2 days, not tomorrow", "2025-12-01"}

\* Confidence and due date of a candidate: a due date with a confidence in
\* range, or no due date with a confidence just past an end of the range.
DueShapes ==
    {[confidence |-> Num(90), due_date |-> Str(e)] : e \in DueExpressions}
      \cup {[confidence |-> Num(n), due_date |-> Absent] :
               n \in {0 - 1, 101}}

\* The i-th candidate of a list has the i-th of these titles.
DueTitles == <<"Send report", "Review PR", "Book room", "Call Bob">>

\* The candidates of the given shapes.
DueTasks(shapes) ==
    [i \in 1 .. Len(shapes) |->
        TaskDict(Str(DueTitles[i]), shapes[i].confidence, shapes[i].due_date,
                 Num(3))]

DueLists == UNION {[1 .. n -> DueShapes] : n \in 0 .. MaxValidated}

DueThresholds == {0 - 1, MIN_CONFIDENCE_THRESHOLD}

InitDue ==
    /\ settings \in [USE_LOCAL_LLM_FOR_CLASSIFICATION : {FALSE},
                     ANTHROPIC_API_KEY : {TRUE},
                     MIN_CONFIDENCE_THRESHOLD : DueThresholds]
    /\ \E shapes \in DueLists : EnteringValidate(DueTasks(shapes))

NextDue ==
    \/ ValidateReturns
    \/ GenerateItemCreated
    \/ GenerateItemFailed
    \/ GenerateCommit
    \/ GenerateCommitFails
    \/ Return

DueSpec == InitDue /\ [][NextDue]_vars

\* ------------------------------------------------------------------------
\* validate_tasks and generate_tasks on titles, priorities and ISO dates
\* ------------------------------------------------------------------------

\* Longest list of candidates with titles, priorities and dates.
MaxRecords == 2

Twice(s) == s \o s

RECURSIVE Repeat(_, _)
\* s * n
Repeat(s, n) ==
    IF n = 0 THEN ""
    ELSE Twice(Repeat(s, n \div 2)) \o (IF n % 2 = 1 THEN s ELSE "")

\* The title of the i-th candidate of a list: as it is, longer than the
\* title column is wide, or behind as much whitespace as the column is
\* wide.
RecordTitle(i, kind) ==
    CASE kind = "plain" -> DueTitles[i]
      [] kind = "long" -> DueTitles[i] \o Repeat(" and then some", 36)
      [] kind = "indented" -> Repeat(" ", MaxTitleLen) \o DueTitles[i]

\* Title, priority and due date of a candidate: priorities missing, null,
\* at and just past each end of the range; due dates missing, null, empty,
\* ISO dates, and dates no calendar has.
RecordShapes ==
    {[title |-> "plain", priority |-> s[1], due_date |-> s[2]] :
        s \in {<<Absent, Absent>>, <<Null, Null>>,
               <<Num(1), Str("2025-12-01")>>, <<Num(5), Str("2024-02-29")>>,
               <<Num(0), Absent>>, <<Num(6), Str("2025-12-01")>>,
               <<Num(3), Str("2025-02-30")>>, <<Num(3), Str("")>>}}
      \cup {[title |-> kind, priority |-> Num(3), due_date |-> Absent] :
               kind \in {"long", "indented"}}

\* The candidates of the given shapes.
RecordTasks(shapes) ==
    [i \in 1 .. Len(shapes) |->
        TaskDict(Str(RecordTitle(i, shapes[i].title)), Num(90),
                 shapes[i].due_date, shapes[i].priority)]

RecordLists == UNION {[1 .. n -> RecordShapes] : n \in 0 .. MaxRecords}

InitRecord ==
    /\ settings \in [USE_LOCAL_LLM_FOR_CLASSIFICATION : {FALSE},
                     ANTHROPIC_API_KEY : {TRUE},
                     MIN_CONFIDENCE_THRESHOLD : {MIN_CONFIDENCE_THRESHOLD}]
    /\ \E shapes \in RecordLists : EnteringValidate(RecordTasks(shapes))

NextRecord ==
    \/ ValidateReturns
    \/ GenerateItemCreated
    \/ GenerateItemFailed
    \/ GenerateCommit
    \/ GenerateCommitFails
    \/ GenerateRefreshFails
    \/ Return

RecordSpec == InitRecord /\ [][NextRecord]_vars

\* ------------------------------------------------------------------------
\* The tasks endpoints next to the pipeline
\* ------------------------------------------------------------------------

\* Up to how many rows the table has when a task is created by hand or a
\* further request for inference is taken.
MaxRows == 2

\* A request body of create_task or update_task: the value of each key,
\* Absent for a key the body leaves out.
TaskBody(title, status, priority, confidence_score) ==
    [title |-> title, status |-> status, priority |-> priority,
     confidence_score |-> confidence_score]

\* Field(..., min_length=1, max_length=500)
TitleField(v) == v.k = "str" /\ Len(v.s) \in 1 .. MaxTitleLen

\* A member of the TaskStatus enum
StatusField(v) == v.k = "str" /\ v.s \in TaskStatus

\* Field(None, ge=1, le=5) of Optional[int]
PriorityField(v) == v.k = "null" \/ (v.k = "num" /\ v.n >= 1 /\ v.n <= 5)

\* Field(100.0, ge=0, le=100)
ConfidenceField(v) == v.k = "num" /\ v.n >= 0 /\ v.n <= 100

\* Whether the body passes as a TaskCreate: only title is required; status
\* and confidence_score cannot be null.
TaskCreate(body) ==
    /\ TitleField(body.title)
    /\ body.status.k = "absent" \/ StatusField(body.status)
    /\ body.priority.k = "absent" \/ PriorityField(body.priority)
    /\ body.confidence_score.k = "absent"
          \/ ConfidenceField(body.confidence_score)

\* Whether the body passes as a TaskUpdate: every key is optional and may
\* be null.  A key the schema does not have, as confidence_score, is
\* ignored.
TaskUpdate(body) ==
    /\ body.title.k \in {"absent", "null"} \/ TitleField(body.title)
    /\ body.status.k \in {"absent", "null"} \/ StatusField(body.status)
    /\ body.priority.k = "absent" \/ PriorityField(body.priority)

\* Task(...) as create_task builds it from a body that passed as a
\* TaskCreate, the defaults of the schema filled in: the validators of the
\* model run on status, priority and confidence_score.
CreatedTask(body) ==
    LET status == Get(body.status, Str("todo"))
        priority == Get(body.priority, Null)
        confidence == Get(body.confidence_score, Num(100))
    IN  [raised |-> ~(/\ ValidStatus(status.s)
                      /\ ValidPriority(priority)
                      /\ ValidConfidenceScore(confidence)),
         task |-> [id |-> 0, title |-> body.title.s, status |-> status.s,
                   priority |-> priority, confidence_score |-> confidence.n,
                   source_type |-> "manual", source_id |-> 0,
                   due_date |-> NoDate]]

\* The loop of setattr in update_task over the keys the body sets, in the
\* order of the schema: title, status, priority.  A status that is null
\* goes to the else branch and to validate_status, which raises; a title
\* that is null is set, and refused by the NOT NULL column at the commit.
Updated(task, body) ==
    LET title == Get(body.title, Str(task.title))
        status == Get(body.status, Str(task.status))
        priority == Get(body.priority, task.priority)
    IN  [raised |-> ~(/\ status.k = "str" /\ ValidStatus(status.s)
                      /\ ValidPriority(priority)),
         commits |-> title.k = "str",
         task |-> [task EXCEPT !.title = title.s, !.status = status.s,
                               !.priority = priority]]

\* Where the task of the id is in the table, 0 if it is not there.
RowOf(rows, task_id) ==
    IF \E i \in 1 .. Len(rows) : rows[i].id = task_id
    THEN CHOOSE i \in 1 .. Len(rows) : rows[i].id = task_id
    ELSE 0

\* The table without its i-th row.
Without(rows, i) == SubSeq(rows, 1, i - 1) \o SubSeq(rows, i + 1, Len(rows))

\* What an endpoint answers: the status code.
Answer(status_code) == [status_code |-> status_code]

\* The bodies sent to create_task: two that pass, one with the defaults and
\* one with every key, and bodies with a status outside the enum, a null
\* status, a priority and a confidence score outside their ranges.
CreateBodies ==
    {TaskBody(Str("Buy milk"), Absent, Absent, Absent),
     TaskBody(Str("Pay rent"), Str("done"), Num(5), Num(0)),
     TaskBody(Str("Buy milk"), Str("archived"), Absent, Absent),
     TaskBody(Str("Buy milk"), Null, Absent, Absent),
     TaskBody(Str("Buy milk"), Absent, Num(0), Absent),
     TaskBody(Str("Buy milk"), Absent, Num(6), Absent),
     TaskBody(Str("Buy milk"), Absent, Absent, Num(-1)),
     TaskBody(Str("Buy milk"), Absent, Absent, Num(101))}

\* The bodies sent to update_task: a new status with the priority taken
\* off, and bodies with a status outside the enum, a null status alone and
\* after a new title, a null title, a priority outside its range and a
\* confidence score, which the schema does not have.
UpdateBodies ==
    {TaskBody(Absent, Str("in_progress"), Null, Absent),
     TaskBody(Absent, Str("archived"), Absent, Absent),
     TaskBody(Absent, Null, Absent, Absent),
     TaskBody(Str("Renamed"), Null, Absent, Absent),
     TaskBody(Null, Absent, Absent, Absent),
     TaskBody(Absent, Absent, Num(6), Absent),
     TaskBody(Absent, Absent, Absent, Num(101))}

\* The candidate lists the extraction service answers the requests for
\* inference with: candidates with a confidence and a priority outside
\* their ranges before one without a priority, and a candidate whose title
\* is null.
StoreLists ==
    {<<TaskDict(Str(DueTitles[1]), Num(101), Absent, Num(3)),
       TaskDict(Str(DueTitles[2]), Num(90), Absent, Num(6)),
       TaskDict(Str(DueTitles[3]), Num(100), Absent, Null)>>,
     <<TaskDict(Null, Num(90), Absent, Num(3))>>}

\* The ids requests name: those of the first rows, and one past them.
TaskIds == 1 .. MaxRows + 1

\* get_db: the Session of a request is closed when its handler is left,
\* and what it did not commit is not written.
SessionClosed == db' = db

\* An endpoint answers; no run of the pipeline is under way.
Answers(status_code) ==
    /\ answer' = Answer(status_code)
    /\ UNCHANGED <<runs, settings, node, at, events, clients, calls,
                   classified, tries, response_text, loop, result>>

\* POST /tasks: 422 for a body that does not pass as a TaskCreate; else the
\* task is built, added, committed and refreshed.
CreateTaskEndpoint(body) ==
    /\ Len(db.rows) < MaxRows
    /\ IF ~TaskCreate(body)
       THEN SessionClosed /\ Answers(422)
       ELSE IF CreatedTask(body).raised
       THEN SessionClosed /\ Answers(500)
       ELSE /\ db' = [db EXCEPT !.rows =
                         @ \o Flushed(@, <<CreatedTask(body).task>>)]
            /\ Answers(201)
    /\ UNCHANGED state

\* PUT /tasks/{task_id}: 404 without the task, 422 for a body that does
\* not pass as a TaskUpdate, 500 when a validator of the model or the
\* commit raises, the session being closed with nothing committed; else
\* the row is written as set.
UpdateTaskEndpoint(task_id, body) ==
    /\ IF ~TaskUpdate(body)
       THEN SessionClosed /\ Answers(422)
       ELSE IF RowOf(db.rows, task_id) = 0
       THEN SessionClosed /\ Answers(404)
       ELSE IF \/ Updated(db.rows[RowOf(db.rows, task_id)], body).raised
               \/ ~Updated(db.rows[RowOf(db.rows, task_id)], body).commits
       THEN SessionClosed /\ Answers(500)
       ELSE /\ db' = [db EXCEPT !.rows[RowOf(db.rows, task_id)] =
                         Updated(@, body).task]
            /\ Answers(200)
    /\ UNCHANGED state

\* DELETE /tasks/{task_id}
DeleteTaskEndpoint(task_id) ==
    /\ IF RowOf(db.rows, task_id) = 0
       THEN SessionClosed /\ Answers(404)
       ELSE /\ db' = [db EXCEPT !.rows = Without(@, RowOf(@, task_id))]
            /\ Answers(204)
    /\ UNCHANGED state

\* The tasks generate_tasks adds to the session for the validated
\* candidates: one for each candidate whose Task is built, in order.
Staged(validated, source, message_id) ==
    LET built == [i \in 1 .. Len(validated) |->
                     NewTask(validated[i], source, message_id)]
        kept == SelectSeq(built, LAMBDA b : ~b.raised)
    IN  [i \in 1 .. Len(kept) |-> kept[i].task]

\* POST /infer-tasks as the table sees it, from the message stored to the
\* answer, the extraction service having answered with the list: the
\* message gets the next id; validate_tasks raising makes it a 500 with
\* nothing written; else generate_tasks writes the tasks it staged in one
\* commit, or none of them when the commit fails, and the endpoint answers
\* 200 either way.
InferTasksRequest(tasks, committed) ==
    /\ Len(db.rows) < MaxRows
    /\ state.message_id < MaxRows
    /\ state' = [state EXCEPT !.message_id = @ + 1]
    /\ LET v == ValidateTasks(tasks, settings.MIN_CONFIDENCE_THRESHOLD)
       IN  IF v.raised
           THEN db' = db /\ Answers(500)
           ELSE /\ db' = IF committed
                         THEN Committed([new |-> Staged(v.validated,
                                                        state.source,
                                                        state.message_id + 1),
                                         rows |-> db.rows])
                         ELSE db
                /\ Answers(200)

\* The server with no request served yet: the table holds one task, and
\* no message is stored.
InitStore ==
    /\ settings \in [USE_LOCAL_LLM_FOR_CLASSIFICATION : {FALSE},
                     ANTHROPIC_API_KEY : {TRUE},
                     MIN_CONFIDENCE_THRESHOLD : {MIN_CONFIDENCE_THRESHOLD}]
    /\ state = [InitialState EXCEPT !.message_id = 0]
    /\ node = "END"
    /\ at = "enter"
    /\ events = <<>>
    /\ clients = [_claude_client |-> "None", _ollama_client |-> "None"]
    /\ calls = NoCalls
    /\ classified = "pending"
    /\ tries = <<>>
    /\ response_text = ""
    /\ loop = [i |-> 1, created_tasks |-> <<>>]
    /\ db = [new |-> <<>>, rows |-> <<ExistingTask>>]
    /\ result = [kind |-> "pending", tasks |-> <<>>]
    /\ runs = <<>>
    /\ answer = NoAnswer

NextStore ==
    \/ \E tasks \in StoreLists, committed \in BOOLEAN :
          InferTasksRequest(tasks, committed)
    \/ \E body \in CreateBodies : CreateTaskEndpoint(body)
    \/ \E task_id \in TaskIds, body \in UpdateBodies :
          UpdateTaskEndpoint(task_id, body)
    \/ \E task_id \in TaskIds : DeleteTaskEndpoint(task_id)

StoreSpec == InitStore /\ [][NextStore]_vars

\* ------------------------------------------------------------------------
\* Requests served at once
\* ------------------------------------------------------------------------

\* How many requests the event loop serves at once.
MaxRuns == 2

Runs == 1 .. MaxRuns

\* The candidate lists the extraction service answers these requests with:
\* one candidate, and a candidate that cannot be stored before one that
\* can.
RunLists ==
    {<<TaskDict(Str(DueTitles[1]), Num(90), Absent, Num(3))>>,
     <<TaskDict(Str(DueTitles[1]), Num(90), Absent, Num(6)),
       TaskDict(Str(DueTitles[2]), Num(90), Str("tomorrow"), Num(1))>>}

\* What awaiting generate_json comes to: it raised, or returned a list.
GenerateJsonResults ==
    {[raised |-> TRUE, v |-> JInt(0)]}
      \cup {[raised |-> FALSE, v |-> JList(L)] : L \in RunLists}

\* The run of the r-th request as infer_tasks starts it, the message stored
\* with id r: the coroutine's position, its state, the clients it was
\* handed (by the number of their construction, 0 for none), the locals of
\* generate_tasks, the objects pending in its Session and how its commit
\* went.
NewRun(r) ==
    [pc |-> "analyze",
     state |-> [InitialState EXCEPT !.message_id = r],
     ollama |-> 0,
     claude |-> 0,
     loop |-> [i |-> 1, created_tasks |-> <<>>],
     new |-> <<>>,
     committed |-> "pending",
     result |-> [kind |-> "pending", tasks |-> <<>>]]

\* The Session get_db hands the request: its own pending objects over the
\* table all requests share.
SessionOf(r) == [new |-> runs[r].new, rows |-> db.rows]

\* The variables of the single run, which stay as they start.
single ==
    <<state, node, at, events, classified, tries, response_text, loop, result>>

InitConcurrent ==
    /\ settings \in [USE_LOCAL_LLM_FOR_CLASSIFICATION : BOOLEAN,
                     ANTHROPIC_API_KEY : {TRUE},
                     MIN_CONFIDENCE_THRESHOLD : {MIN_CONFIDENCE_THRESHOLD}]
    /\ state = InitialState
    /\ node = EntryPoint
    /\ at = "enter"
    /\ events = <<>>
    /\ classified = "pending"
    /\ tries = <<>>
    /\ response_text = ""
    /\ loop = [i |-> 1, created_tasks |-> <<>>]
    /\ result = [kind |-> "pending", tasks |-> <<>>]
    /\ clients = [_claude_client |-> "None", _ollama_client |-> "None"]
    /\ calls = NoCalls
    /\ db = [new |-> <<>>, rows |-> <<ExistingTask>>]
    /\ runs = [r \in Runs |-> NewRun(r)]
    /\ answer = NoAnswer

\* analyze_message up to its await: with classification on, the shared
\* client is fetched (there is no await between the test for None and the
\* assignment) and the request sent.  The client handed over is the one
\* just constructed or the one stored, which is the last one constructed.
RunAnalyze(r) ==
    /\ runs[r].pc = "analyze"
    /\ IF settings.USE_LOCAL_LLM_FOR_CLASSIFICATION
       THEN /\ clients' = GetOllamaClient(clients)
            /\ calls' = [calls EXCEPT
                           !.ollama_init = IF clients._ollama_client = "None"
                                           THEN @ + 1 ELSE @,
                           !.classify = @ + 1]
            /\ runs' = [runs EXCEPT ![r].pc = "classify",
                                    ![r].ollama = calls'.ollama_init]
       ELSE /\ runs' = [runs EXCEPT
                          ![r].pc = "extract",
                          ![r].state.is_actionable =
                              AnalyzeFlag(FALSE, FALSE, FALSE)]
            /\ UNCHANGED <<clients, calls>>
    /\ UNCHANGED <<answer, settings, db, single>>

\* The classification request comes back and analyze_message returns.
RunClassified(r) ==
    /\ runs[r].pc = "classify"
    /\ \E outcome \in OllamaOutcomes :
         runs' = [runs EXCEPT
                    ![r].pc = "extract",
                    ![r].state.is_actionable =
                        AnalyzeFlag(TRUE, FALSE,
                                    OllamaIsActionable(OllamaGenerate(outcome)))]
    /\ UNCHANGED <<answer, settings, clients, calls, db, single>>

\* extract_tasks up to its await: nothing to do for content that is not
\* actionable, else the shared client is fetched and generate_json called.
RunExtract(r) ==
    /\ runs[r].pc = "extract"
    /\ IF SkipExtraction(runs[r].state)
       THEN /\ runs' = [runs EXCEPT ![r].pc = "validate",
                                    ![r].state.extracted_tasks = <<>>]
            /\ UNCHANGED <<clients, calls>>
       ELSE /\ clients' = GetClaudeClient(clients)
            /\ calls' = [calls EXCEPT
                           !.claude_init = IF clients._claude_client = "None"
                                           THEN @ + 1 ELSE @,
                           !.generate_json = @ + 1]
            /\ runs' = [runs EXCEPT ![r].pc = "call",
                                    ![r].claude = calls'.claude_init]
    /\ UNCHANGED <<answer, settings, db, single>>

\* generate_json comes back, after whatever attempts it took, and
\* extract_tasks returns.
RunExtracted(r) ==
    /\ runs[r].pc = "call"
    /\ \E res \in GenerateJsonResults :
         runs' = [runs EXCEPT ![r].pc = "validate",
                              ![r].state = AfterGenerateJson(@, res)]
    /\ UNCHANGED <<answer, settings, clients, calls, db, single>>

\* The run after validate_tasks came to v: the request is answered with
\* HTTP 500 when it raised.
AfterValidate(run, v) ==
    IF v.raised
    THEN [run EXCEPT !.pc = "done",
                     !.result = [kind |-> "raised", tasks |-> <<>>]]
    ELSE [run EXCEPT !.pc = "generate",
                     !.state.validated_tasks = v.validated]

\* validate_tasks
RunValidate(r) ==
    /\ runs[r].pc = "validate"
    /\ runs' = [runs EXCEPT ![r] =
                  AfterValidate(@, ValidateTasks(@.state.extracted_tasks,
                                      settings.MIN_CONFIDENCE_THRESHOLD))]
    /\ UNCHANGED <<answer, settings, clients, calls, db, single>>

\* The run after the body of generate_tasks' loop came to t for one
\* candidate: the task is added to the Session and kept, or the failure is
\* recorded.
AfterItem(run, t) ==
    IF t.raised
    THEN [run EXCEPT !.state.errors = AppendError(@, "Failed to create task"),
                     !.loop = ItemFailed(@)]
    ELSE [run EXCEPT !.new = Append(@, t.task),
                     !.loop = ItemCreated(@, t.task)]

\* The body of generate_tasks' loop for one validated candidate.
RunGenerateItem(r) ==
    /\ runs[r].pc = "generate"
    /\ runs[r].loop.i <= Len(runs[r].state.validated_tasks)
    /\ runs' = [runs EXCEPT ![r] =
                  AfterItem(@, NewTask(@.state.validated_tasks[@.loop.i],
                                       @.state.source, @.state.message_id))]
    /\ calls' = [calls EXCEPT !.add = @ + Len(runs'[r].new) - Len(runs[r].new)]
    /\ UNCHANGED <<answer, settings, clients, db, single>>

\* The run and its Session after the commit step of generate_tasks.
AfterCommit(run, session, created, how) ==
    [run EXCEPT !.pc = "END",
                !.new = session.new,
                !.committed = how,
                !.state.created_tasks = created,
                !.state.errors = IF how = "ok" THEN @
                                 ELSE AppendError(@, "Database commit failed")]

\* After the loop: the commit goes through, or it fails and the Session is
\* rolled back.
RunCommit(r) ==
    /\ runs[r].pc = "generate"
    /\ runs[r].loop.i > Len(runs[r].state.validated_tasks)
    /\ \/ /\ db' = [db EXCEPT !.rows = Committed(SessionOf(r)).rows]
          /\ calls' = [calls EXCEPT !.commit = @ + 1]
          /\ runs' = [runs EXCEPT ![r] =
                        AfterCommit(@, Committed(SessionOf(r)),
                                    CreatedAfterCommit(SessionOf(r),
                                        @.loop.created_tasks, TRUE), "ok")]
       \/ /\ db' = [db EXCEPT !.rows = RolledBack(SessionOf(r)).rows]
          /\ calls' = [calls EXCEPT !.commit = @ + 1, !.rollback = @ + 1]
          /\ runs' = [runs EXCEPT ![r] =
                        AfterCommit(@, RolledBack(SessionOf(r)),
                                    CreatedAfterCommit(SessionOf(r),
                                        @.loop.created_tasks, FALSE),
                                    "failed")]
    /\ UNCHANGED <<answer, settings, clients, single>>

\* infer_tasks_from_text returns and infer_tasks marks the message as
\* processed: its commit writes what is pending in the Session.
RunFinish(r) ==
    /\ runs[r].pc = "END"
    /\ db' = [db EXCEPT !.rows = Committed(SessionOf(r)).rows]
    /\ runs' = [runs EXCEPT
                  ![r].pc = "done",
                  ![r].new = Committed(SessionOf(r)).new,
                  ![r].result = [kind |-> "returned",
                                 tasks |-> runs[r].state.created_tasks]]
    /\ UNCHANGED <<answer, settings, clients, calls, single>>

NextConcurrent ==
    \/ \E r \in Runs : RunAnalyze(r)
    \/ \E r \in Runs : RunClassified(r)
    \/ \E r \in Runs : RunExtract(r)
    \/ \E r \in Runs : RunExtracted(r)
    \/ \E r \in Runs : RunValidate(r)
    \/ \E r \in Runs : RunGenerateItem(r)
    \/ \E r \in Runs : RunCommit(r)
    \/ \E r \in Runs : RunFinish(r)

ConcurrentSpec == InitConcurrent /\ [][NextConcurrent]_vars

\* ------------------------------------------------------------------------
\* Properties
\* ------------------------------------------------------------------------

\* The events of a run in which each node starts once its predecessor
\* returned, and returns.
FullRun ==
    <<Started("analyze"), Returned("analyze"),
      Started("extract"), Returned("extract"),
      Started("validate"), Returned("validate"),
      Started("generate"), Returned("generate")>>

IsPrefix(s, t) == Len(s) <= Len(t) /\ SubSeq(t, 1, Len(s)) = s

\* The graph has stopped: it finished, or a node raised.
RunEnded == node \in {"END", "raised"}

\* C1: in every run the four stages execute in the order Analyze, Extract,
\* Validate, Generate, each exactly once and never overlapping: at every
\* moment the events so far are a prefix of the full run (no stage starts
\* before its predecessor returned, none is repeated, the run is not
\* restarted), and a run that has ended has executed all four (none is
\* skipped).
C1_StagesInOrder ==
    /\ IsPrefix(events, FullRun)
    /\ RunEnded => events = FullRun

\* The classification was attempted and failed: the client could not be
\* had, the request failed, or the reply could not be handled.
ClassificationFailed ==
    classified \in {"no_client", "request_failed", "bad_reply"}

\* C2: fail-open classification.  Whenever classification is enabled and
\* the classification call failed in any way, Analyze returned normally
\* with is_actionable = true and without recording an error, and the run
\* went on to Extract, which then calls the extraction client.
C2_FailOpen ==
    ClassificationFailed =>
        /\ settings.USE_LOCAL_LLM_FOR_CLASSIFICATION
        /\ IsPrefix(<<Started("analyze"), Returned("analyze")>>, events)
        /\ state.is_actionable
        /\ (node = "extract" /\ at = "enter") => state.errors = <<>>
        /\ \/ node = "extract" /\ at = "enter"
           \/ /\ Len(events) >= 3 /\ events[3] = Started("extract")
              /\ calls.generate_json = 1

\* A failed classification request after which Extract is calling the
\* extraction client.
C2_Witness ==
    /\ classified = "request_failed"
    /\ state.is_actionable
    /\ node = "extract" /\ at = "call"
    /\ state.errors = <<>>

\* C3: when classification is disabled by configuration, Analyze sets
\* is_actionable = true without fetching or calling the classification
\* client, and Extract then invokes the extraction client.
C3_ClassificationDisabled ==
    (~settings.USE_LOCAL_LLM_FOR_CLASSIFICATION /\ node # "analyze") =>
        /\ classified = "disabled"
        /\ state.is_actionable
        /\ calls.classify = 0 /\ calls.ollama_init = 0
        /\ clients._ollama_client = "None"
        /\ \/ node = "extract" /\ at = "enter"
           \/ calls.generate_json = 1

\* Classification is off and Extract has returned after its call of the
\* extraction client.
C3_Witness ==
    /\ ~settings.USE_LOCAL_LLM_FOR_CLASSIFICATION
    /\ state.is_actionable
    /\ calls.classify = 0
    /\ calls.generate_json = 1
    /\ node = "validate"

\* C4: early exit.  In a run where is_actionable is false after Analyze
\* the extraction client is never fetched or invoked, nor its service
\* called, and the extracted candidates are empty after Extract;
\* conversely the extraction client is invoked only when is_actionable is
\* true.
C4_EarlyExit ==
    /\ (node # "analyze" /\ ~state.is_actionable) =>
          /\ calls.generate_json = 0 /\ calls.service = 0
          /\ calls.claude_init = 0 /\ clients._claude_client = "None"
          /\ tries = <<>>
          /\ ~(node = "extract" /\ at # "enter")
          /\ node # "extract" => state.extracted_tasks = <<>>
    /\ (calls.generate_json > 0 \/ calls.service > 0 \/ tries # <<>>) =>
          state.is_actionable

\* A run classified as not actionable has returned without a call of the
\* extraction client.
C4_Witness ==
    /\ classified = "reply"
    /\ ~state.is_actionable
    /\ result.kind = "returned"
    /\ calls.generate_json = 0
    /\ state.extracted_tasks = <<>>

\* generate_json raised on the response, or returned a value that is
\* neither a list nor an object with a `tasks` entry.
Unusable(r) ==
    \/ r.raised
    \/ /\ r.v.shape # "list"
       /\ ~(r.v.shape = "dict" /\ r.v.key = "tasks")

\* C5: total extraction failure.  Whenever the response cannot be parsed
\* or parses to an unrecognized shape, the step of Extract that handles it
\* both appends a diagnostic to errors and leaves the extracted candidates
\* empty.
C5_TotalExtractionFailure ==
    [][(node = "extract" /\ at = "parse"
          /\ Unusable(ParseResponse(response_text))) =>
       /\ state'.extracted_tasks = <<>>
       /\ Len(state'.errors) = Len(state.errors) + 1]_vars

\* C6: commit rollback is all-or-nothing.  If the commit at the end of
\* Generate failed after k >= 0 records were staged, the table holds what
\* it held before the run and none of this run's records, nothing is left
\* staged, a diagnostic is the last of errors, and the created tasks, in
\* the state and in what the caller gets, are empty.
C6_CommitRollback ==
    calls.rollback = 1 =>
        /\ calls.commit = 1
        /\ db.rows = <<ExistingTask>>
        /\ \A i \in 1 .. Len(db.rows) : db.rows[i].source_id # state.message_id
        /\ db.new = <<>>
        /\ state.errors # <<>>
        /\ state.errors[Len(state.errors)] = "Database commit failed"
        /\ state.created_tasks = <<>>
        /\ result.kind = "returned" => result.tasks = <<>>

\* The commit failed after two records were staged, and the caller got
\* its result.
C6_Witness ==
    /\ calls.add = 2
    /\ calls.rollback = 1
    /\ result.kind = "returned"
    /\ result.tasks = <<>>
    /\ db.rows = <<ExistingTask>>

\* Whether the record of a validated candidate can be built.
Builds(task_data) == ~NewTask(task_data, state.source, state.message_id).raised

RECURSIVE Built(_)
\* The records of those validated candidates that can be built, in order.
Built(validated) ==
    IF validated = <<>> THEN <<>>
    ELSE (IF Builds(Head(validated))
          THEN <<NewTask(Head(validated), state.source, state.message_id).task>>
          ELSE <<>>) \o Built(Tail(validated))

RECURSIVE Occurrences(_, _)
\* How often e occurs in the sequence s.
Occurrences(s, e) ==
    IF s = <<>> THEN 0
    ELSE (IF Head(s) = e THEN 1 ELSE 0) + Occurrences(Tail(s), e)

C8_NoErrorEscapes ==
    /\ node # "raised"
    /\ result.kind # "raised"
    /\ \A i \in 1 .. Len(events) : events[i].ev # "raise"

ShapeTable == [L \in CandLists |-> ShapedResponses(L)]

\* C10: response-shape normalization.  For any candidate list L, a
\* response that is L as bare data, L in a fenced block with any language
\* tag or none (with or without prose around it), or an object whose
\* `tasks` entry is L, leaves Extract with the extracted candidates L.
C10_ShapeNormalization ==
    [][(node = "extract" /\ at = "parse") =>
       \A L \in CandLists :
          response_text \in ShapeTable[L] => state'.extracted_tasks = L]_vars

\* Whether validate_tasks' confidence and title checks let a candidate by.
PassesChecks(c) ==
    /\ Get(Field(c, "confidence"), Num(0)).k = "num"
    /\ Get(Field(c, "confidence"), Num(0)).n >= settings.MIN_CONFIDENCE_THRESHOLD
    /\ Get(Field(c, "title"), Str("")).k = "str"
    /\ Strip(Get(Field(c, "title"), Str("")).s) # ""

\* The title of a candidate ignoring case, and ignoring surrounding
\* whitespace as well.
FoldedTitle(c) == Lower(c.title.s)
TrimmedFoldedTitle(c) == Lower(Strip(c.title.s))

\* C11: case-insensitive title uniqueness with first-wins.  After
\* Validate no two validated candidates have titles equal ignoring case;
\* each validated candidate is an extracted one that passes the confidence
\* and title checks with no passing candidate of the same title before it;
\* and a passing candidate is kept whenever no passing candidate before it
\* has its title, so that an earlier duplicate of low confidence does not
\* block it.
C11_FirstWins ==
    node = "generate" =>
        /\ \A i, j \in 1 .. Len(state.validated_tasks) :
              i # j => FoldedTitle(state.validated_tasks[i])
                          # FoldedTitle(state.validated_tasks[j])
        /\ \A i \in 1 .. Len(state.validated_tasks) :
              \E p \in 1 .. Len(state.extracted_tasks) :
                 /\ state.extracted_tasks[p] = state.validated_tasks[i]
                 /\ PassesChecks(state.extracted_tasks[p])
                 /\ \A q \in 1 .. p - 1 :
                       PassesChecks(state.extracted_tasks[q]) =>
                          FoldedTitle(state.extracted_tasks[q])
                             # FoldedTitle(state.extracted_tasks[p])
        /\ \A p \in 1 .. Len(state.extracted_tasks) :
              (/\ PassesChecks(state.extracted_tasks[p])
               /\ \A q \in 1 .. p - 1 :
                     PassesChecks(state.extracted_tasks[q]) =>
                        TrimmedFoldedTitle(state.extracted_tasks[q])
                           # TrimmedFoldedTitle(state.extracted_tasks[p]))
              => \E i \in 1 .. Len(state.validated_tasks) :
                    state.validated_tasks[i] = state.extracted_tasks[p]

\* Two extracted candidates pass the checks with titles that differ in
\* case only, and Validate kept the first alone.
C11_Witness ==
    /\ node = "generate"
    /\ Len(state.extracted_tasks) = 2
    /\ PassesChecks(state.extracted_tasks[1])
    /\ PassesChecks(state.extracted_tasks[2])
    /\ state.extracted_tasks[1].title # state.extracted_tasks[2].title
    /\ FoldedTitle(state.extracted_tasks[1]) = FoldedTitle(state.extracted_tasks[2])
    /\ state.validated_tasks = <<state.extracted_tasks[1]>>

\* The confidence validate_tasks reads off a candidate.
ConfidenceOf(c) == Get(Field(c, "confidence"), Num(0)).n

\* The p-th extracted candidate has a title that is not blank and that no
\* candidate accepted before it has.
FreshTitle(p) ==
    /\ state.extracted_tasks[p].title.k = "str"
    /\ Strip(state.extracted_tasks[p].title.s) # ""
    /\ \A q \in 1 .. p - 1 :
          PassesChecks(state.extracted_tasks[q]) =>
             TrimmedFoldedTitle(state.extracted_tasks[q])
                # TrimmedFoldedTitle(state.extracted_tasks[p])

\* The candidate is among the validated ones.
Kept(c) ==
    \E i \in 1 .. Len(state.validated_tasks) : state.validated_tasks[i] = c

\* C12: threshold boundary.  For every threshold t, a candidate with a
\* non-empty, not-yet-seen title is kept by Validate when its confidence
\* equals t, dropped when it equals t - 1, and in general kept iff its
\* confidence is at least t.
C12_ThresholdBoundary ==
    node = "generate" =>
        \A p \in 1 .. Len(state.extracted_tasks) :
            FreshTitle(p) =>
               /\ ConfidenceOf(state.extracted_tasks[p])
                     = settings.MIN_CONFIDENCE_THRESHOLD
                  => Kept(state.extracted_tasks[p])
               /\ ConfidenceOf(state.extracted_tasks[p])
                     = settings.MIN_CONFIDENCE_THRESHOLD - 1
                  => ~Kept(state.extracted_tasks[p])
               /\ Kept(state.extracted_tasks[p])
                     <=> ConfidenceOf(state.extracted_tasks[p])
                            >= settings.MIN_CONFIDENCE_THRESHOLD

\* With threshold 70, of two candidates with different titles the one
\* with confidence 69 was dropped and the one with confidence 70 kept.
C12_Witness ==
    /\ node = "generate"
    /\ settings.MIN_CONFIDENCE_THRESHOLD = 70
    /\ Len(state.extracted_tasks) = 2
    /\ FreshTitle(1) /\ FreshTitle(2)
    /\ ConfidenceOf(state.extracted_tasks[1]) = 69
    /\ ConfidenceOf(state.extracted_tasks[2]) = 70
    /\ state.validated_tasks = <<state.extracted_tasks[2]>>

\* C13: validator idempotence.  For every candidate sequence and
\* threshold, applying Validate to the output of Validate with the same
\* threshold returns that output unchanged (and does not raise).
C13_ValidatorIdempotent ==
    node = "generate" =>
        ValidateTasks(state.validated_tasks, settings.MIN_CONFIDENCE_THRESHOLD)
           = [raised |-> FALSE, validated |-> state.validated_tasks]

\* Validate dropped one of two extracted candidates, and validating what
\* it kept keeps it.
C13_Witness ==
    /\ node = "generate"
    /\ Len(state.extracted_tasks) = 2
    /\ Len(state.validated_tasks) = 1
    /\ ValidateTasks(state.validated_tasks,
                     settings.MIN_CONFIDENCE_THRESHOLD).validated
          = state.validated_tasks

\* Whether v is a subsequence of s: its elements are elements of s, taken
\* in the order of s.
IsSubsequence(v, s) ==
    \E f \in [1 .. Len(v) -> 1 .. Len(s)] :
       /\ \A i, j \in 1 .. Len(v) : i < j => f[i] < f[j]
       /\ \A i \in 1 .. Len(v) : v[i] = s[f[i]]

\* C14: the validated candidates are an order-preserving subsequence of
\* the extracted ones: each is an unmodified element of the extracted
\* sequence and the kept candidates stand in extraction order; before
\* Validate has returned there are none.
C14_OrderPreservingSubsequence ==
    /\ IsSubsequence(state.validated_tasks, state.extracted_tasks)
    /\ node = "validate" => state.validated_tasks = <<>>

\* Validate kept two candidates, in the order of their extraction.
C14_Witness ==
    /\ node = "generate"
    /\ Len(state.validated_tasks) = 2
    /\ state.validated_tasks[1] # state.validated_tasks[2]
    /\ state.validated_tasks = state.extracted_tasks

\* C15: in every reachable state of a run, and so at its end, there are
\* at most as many created tasks as validated candidates and at most as
\* many validated as extracted candidates; the same goes for the tasks
\* created so far in Generate, for what the caller gets and for the rows
\* the run added to the table.
C15_LengthsDecrease ==
    /\ Len(state.created_tasks) <= Len(state.validated_tasks)
    /\ Len(state.validated_tasks) <= Len(state.extracted_tasks)
    /\ Len(loop.created_tasks) <= Len(state.validated_tasks)
    /\ Len(result.tasks) <= Len(state.validated_tasks)
    /\ Len(db.rows) - 1 <= Len(state.validated_tasks)

\* A finished run with two extracted candidates, one of them validated,
\* and none created although the commit went through.
C15_Witness ==
    /\ result.kind = "returned"
    /\ calls.rollback = 0
    /\ Len(state.extracted_tasks) = 2
    /\ Len(state.validated_tasks) = 1
    /\ Len(state.created_tasks) = 0
    /\ result.tasks = <<>>

\* Extract has returned.
ExtractDone == node \notin {"analyze", "extract"}

\* C16: if the extracted candidates are empty after Extract (content not
\* actionable, extraction failed, or the model returned no tasks), then
\* Validate returns with no validated candidate, nothing is staged,
\* created, written to the table or handed to the caller, through to the
\* end of the run; and the Validate stage calls no external service and
\* fetches no client.
C16_EmptyExtraction ==
    /\ [](ExtractDone /\ state.extracted_tasks = <<>> =>
            /\ node # "raised"
            /\ state.validated_tasks = <<>>
            /\ state.created_tasks = <<>>
            /\ loop.created_tasks = <<>>
            /\ db = [new |-> <<>>, rows |-> <<ExistingTask>>]
            /\ calls.add = 0
            /\ result.tasks = <<>>)
    /\ [][node = "validate" =>
            calls' = calls /\ clients' = clients /\ tries' = tries]_vars

\* The service answered with something that is no JSON, so that nothing
\* was extracted, and the run has returned with the commit gone through.
C16_Witness ==
    /\ result.kind = "returned"
    /\ tries = <<"ok">>
    /\ state.errors = <<"Task extraction failed">>
    /\ state.extracted_tasks = <<>>
    /\ state.validated_tasks = <<>>
    /\ calls.commit = 1 /\ calls.rollback = 0
    /\ db.rows = <<ExistingTask>>

\* The confidence generate_tasks reads off a candidate is outside [0, 100].
ConfidenceOutOfRange(c) ==
    Get(Field(c, "confidence"), Num(50)).n \notin 0 .. 100

\* How many validated candidates the loop of generate_tasks has handled.
Handled ==
    CASE node = "generate" -> loop.i - 1
      [] node = "END" -> Len(state.validated_tasks)
      [] OTHER -> 0

\* Every task of the sequence has a confidence score within [0, 100].
ScoresInRange(tasks) ==
    \A i \in 1 .. Len(tasks) : tasks[i].confidence_score \in 0 .. 100

ZeroTaskSuccessResult ==
    [kind |-> "returned",
     tasks |-> CreatedAfterCommit([new |-> <<>>, rows |-> <<ExistingTask>>],
                                  <<>>, TRUE)]

\* C18: a commit failure is reported as a failure of the whole run: what
\* the caller of infer_tasks_from_text, and of the infer_tasks endpoint
\* above it, receives after a failed commit differs from what it receives
\* from a successful run that inferred zero tasks.
C18_CommitFailureReported ==
    (result.kind = "returned" /\ calls.rollback = 1) =>
        /\ result # ZeroTaskSuccessResult
        /\ InferTasksEndpoint(result) # InferTasksEndpoint(ZeroTaskSuccessResult)

\* C19: the error log is inspectable by the caller: what
\* infer_tasks_from_text returns for a run whose extraction failed (errors
\* not empty, zero tasks) differs from what it returns for a run whose
\* extraction succeeded and found zero tasks (errors empty).
C19_ErrorsInspectable ==
    (/\ result.kind = "returned"
     /\ calls.rollback = 0
     /\ state.errors = <<"Task extraction failed">>) =>
        result # ZeroTaskSuccessResult

\* The expressions that are no ISO date, each with the timestamp the
\* precedence of the relative rules gives it.
RelativeExpressions == DueExpressions \ {"2025-12-01"}
ExpectedRelative(e) ==
    CASE e \in {"tomorrow", "tomorrow or next week",
                "in 2 days, not tomorrow"} -> NowPlus(1)
      [] e \in {"next week", "next week, EOD"} -> NowPlus(7)
      [] e \in {"EOD", "by end of day", "eod next month"} -> TodayAt17
      [] e \in {"next month", "next month, in 5 days"} -> NowPlus(30)
      [] e = "in 3 days" -> NowPlus(3)
      [] e = "In 1 Day" -> NowPlus(1)
      [] e = "whenever" -> NowPlus(1)

\* The tasks of the sequence have the due dates the relative rules give
\* the expressions of their candidates (the i-th candidate being the one
\* with the i-th title).
DueDatesAsExpected(tasks) ==
    \A j \in 1 .. Len(tasks) :
       \A i \in 1 .. Len(state.validated_tasks) :
          (/\ tasks[j].title = state.validated_tasks[i].title.s
           /\ state.validated_tasks[i].due_date.s \in RelativeExpressions)
          => tasks[j].due_date
                = ExpectedRelative(state.validated_tasks[i].due_date.s)

\* C20: relative date resolution follows a fixed precedence over
\* case-insensitive substring matches of a non-ISO expression: "tomorrow"
\* gives now + 1 day, else "next week" now + 7 days, else "eod" or "end of
\* day" today at 17:00:00, else "next month" now + 30 days, else "in N
\* day(s)" now + N days, else now + 1 day; an expression matching several
\* patterns resolves by the earliest of them.  Every candidate with such an
\* expression is staged with that due date, and created and written with
\* it.
C20_RelativePrecedence ==
    /\ DueDatesAsExpected(db.new) /\ DueDatesAsExpected(db.rows)
    /\ DueDatesAsExpected(loop.created_tasks)
    /\ DueDatesAsExpected(state.created_tasks)
    /\ DueDatesAsExpected(result.tasks)
    /\ node = "generate" =>
          \A i \in 1 .. Handled :
             state.validated_tasks[i].due_date.s \in RelativeExpressions =>
                \E j \in 1 .. Len(db.new) :
                   db.new[j].title = state.validated_tasks[i].title.s

\* Two candidates whose expressions each match two patterns were created
\* with the due date of the earlier pattern: tomorrow before next week,
\* end of day before next month.
C20_Witness ==
    /\ result.kind = "returned"
    /\ Len(state.validated_tasks) = 2
    /\ state.validated_tasks[1].due_date = Str("tomorrow or next week")
    /\ state.validated_tasks[2].due_date = Str("eod next month")
    /\ Len(result.tasks) = 2
    /\ result.tasks[1].due_date = NowPlus(1)
    /\ result.tasks[2].due_date = TodayAt17

\* C21: the date resolver is total.  For every due-date expression a
\* validated candidate carries (any text, a malformed or a non-text value)
\* the resolution gives a timestamp or nothing and does not raise, so that
\* no candidate is dropped for its due date: a candidate that Generate has
\* handled, and whose record could be built without the due date, is staged.
C21_ResolverTotal ==
    \A i \in 1 .. Handled :
       /\ ~ResolveDueDate(state.validated_tasks[i]).raised
       /\ (/\ node = "generate"
           /\ Builds([state.validated_tasks[i] EXCEPT !.due_date = Absent])) =>
             \E j \in 1 .. Len(db.new) :
                db.new[j].title
                   = SliceTo(state.validated_tasks[i].title.s, MaxTitleLen)

\* The ISO dates among the due dates of candidates, each with the calendar
\* date it names.
IsoExpressions == {"2025-12-01", "2024-02-29"}
ExpectedIso(e) ==
    CASE e = "2025-12-01" -> IsoDate(2025, 12, 1)
      [] e = "2024-02-29" -> IsoDate(2024, 2, 29)

\* The candidate has no due-date expression: the key is missing or null.
NoDueDate(c) == c.due_date \in {Absent, Null}

\* The task is a record of the candidate, going by its title.
RecordOf(task, c) == task.title = SliceTo(c.title.s, MaxTitleLen)

\* The tasks of the sequence have the due dates their candidates name: the
\* calendar date of an ISO date at midnight, none for a candidate without
\* one.
DueDatesAsWritten(tasks) ==
    \A j \in 1 .. Len(tasks) :
       \A i \in 1 .. Len(state.validated_tasks) :
          RecordOf(tasks[j], state.validated_tasks[i]) =>
             /\ state.validated_tasks[i].due_date.s \in IsoExpressions =>
                   tasks[j].due_date
                      = ExpectedIso(state.validated_tasks[i].due_date.s)
             /\ NoDueDate(state.validated_tasks[i]) =>
                   tasks[j].due_date = NoDate

\* C22: ISO-first resolution.  A due-date expression that is a valid
\* ISO-8601 date resolves to exactly that calendar date, no relative rule
\* applied, and a candidate with no due-date expression (absent or null)
\* gets no due date: every such candidate whose priority is acceptable is
\* staged, and staged, created, returned and written with that due date.
C22_IsoFirst ==
    /\ DueDatesAsWritten(db.new) /\ DueDatesAsWritten(db.rows)
    /\ DueDatesAsWritten(loop.created_tasks)
    /\ DueDatesAsWritten(state.created_tasks)
    /\ DueDatesAsWritten(result.tasks)
    /\ node = "generate" =>
          \A i \in 1 .. Handled :
             (/\ \/ state.validated_tasks[i].due_date.s \in IsoExpressions
                 \/ NoDueDate(state.validated_tasks[i])
              /\ ValidPriority(Get(state.validated_tasks[i].priority, Num(3))))
             => \E j \in 1 .. Len(db.new) :
                   RecordOf(db.new[j], state.validated_tasks[i])

\* A candidate due on 2024-02-29 and one whose due date is null were
\* created and returned, the first with that date and the second with none.
C22_Witness ==
    /\ result.kind = "returned"
    /\ calls.rollback = 0
    /\ Len(state.validated_tasks) = 2
    /\ state.validated_tasks[1].due_date = Str("2024-02-29")
    /\ state.validated_tasks[2].due_date = Null
    /\ Len(result.tasks) = 2
    /\ result.tasks[1].due_date = IsoDate(2024, 2, 29)
    /\ result.tasks[2].due_date = NoDate
    /\ db.rows = <<ExistingTask>> \o result.tasks

\* A finished run in which the content was judged actionable, extraction
\* returned exactly one candidate, without a due-date expression, and the
\* commit succeeded.
OneCandidateRun ==
    /\ result.kind = "returned"
    /\ state.is_actionable
    /\ Len(state.extracted_tasks) = 1
    /\ NoDueDate(state.extracted_tasks[1])
    /\ calls.commit = 1 /\ calls.rollback = 0

\* The run returned exactly one persisted task, that of the one candidate:
\* status todo, the candidate's confidence, no due date, and no error.
OneTaskPersisted ==
    /\ Len(result.tasks) = 1
    /\ result.tasks[1].title
          = SliceTo(state.extracted_tasks[1].title.s, MaxTitleLen)
    /\ result.tasks[1].status = "todo"
    /\ result.tasks[1].confidence_score = state.extracted_tasks[1].confidence.n
    /\ result.tasks[1].due_date = NoDate
    /\ db.rows = <<ExistingTask>> \o result.tasks
    /\ state.errors = <<>>

C24_ClientsCreatedOnce ==
    /\ calls.claude_init <= 1 /\ calls.ollama_init <= 1
    /\ (clients._claude_client = "None") <=> (calls.claude_init = 0)
    /\ (clients._ollama_client = "None") <=> (calls.ollama_init = 0)
    /\ \A r \in Runs :
          /\ runs[r].claude \in {0, 1}
          /\ runs[r].ollama \in {0, 1}
          /\ runs[r].pc = "call" => runs[r].claude = 1
          /\ runs[r].pc = "classify" => runs[r].ollama = 1

\* Two requests both wait for the extraction service, and so asked for the
\* extraction client before either was answered, after both had asked for
\* the classification client: each kind of client was constructed once.
C24_Witness ==
    /\ runs[1].pc = "call" /\ runs[2].pc = "call"
    /\ runs[1].claude = 1 /\ runs[2].claude = 1
    /\ runs[1].ollama = 1 /\ runs[2].ollama = 1
    /\ calls.generate_json = 2 /\ calls.classify = 2
    /\ calls.claude_init = 1 /\ calls.ollama_init = 1

\* The rows of the table that the run of request r wrote, ids aside.
RowsOf(r) ==
    LET mine == SelectSeq(db.rows, LAMBDA t : t.source_id = r)
    IN  [i \in 1 .. Len(mine) |-> [mine[i] EXCEPT !.id = 0]]

\* C25: batch atomicity across the requests served at once.  Under every
\* interleaving, at every moment the table holds of each run either all the
\* records it staged, once its commit succeeded, or none of them, before
\* its commit and after a failed one; the records one run committed stay
\* while other runs commit or roll back, and the row from before the runs
\* stays the first.
C25_BatchAtomicity ==
    /\ db.rows # <<>> /\ db.rows[1] = ExistingTask
    /\ \A i \in 1 .. Len(db.rows) : db.rows[i].id = i
    /\ \A r \in Runs :
          /\ runs[r].committed = "ok" =>
                /\ runs[r].pc \in {"END", "done"}
                /\ RowsOf(r) = runs[r].loop.created_tasks
          /\ runs[r].committed # "ok" => RowsOf(r) = <<>>
          /\ runs[r].pc = "done" =>
                runs[r].result.tasks
                   = IF runs[r].committed = "ok"
                     THEN SelectSeq(db.rows, LAMBDA t : t.source_id = r)
                     ELSE <<>>

\* Both requests are answered: the first committed the one record it
\* staged; the second staged one record of its two candidates and its
\* commit failed.  The table holds the first's record and none of the
\* second's.
C25_Witness ==
    /\ runs[1].pc = "done" /\ runs[2].pc = "done"
    /\ runs[1].committed = "ok" /\ runs[2].committed = "failed"
    /\ Len(runs[1].loop.created_tasks) = 1
    /\ Len(runs[2].loop.created_tasks) = 1
    /\ Len(runs[2].state.validated_tasks) = 2
    /\ Len(db.rows) = 2
    /\ db.rows[2].source_id = 1
    /\ runs[2].result.tasks = <<>>
    /\ calls.add = 2 /\ calls.commit = 2 /\ calls.rollback = 1

\* The tasks of the sequence that are records of validated candidates
\* carrying no confidence have the confidence score 0.
AbsentConfidenceStoredAsZero(tasks) ==
    \A j \in 1 .. Len(tasks) :
       \A i \in 1 .. Len(state.validated_tasks) :
          (/\ RecordOf(tasks[j], state.validated_tasks[i])
           /\ state.validated_tasks[i].confidence = Absent)
          => tasks[j].confidence_score = 0

\* C26: a candidate that carries no confidence value is treated as
\* confidence 0 everywhere in the run: Validate drops it for every
\* threshold > 0, and in a run where it is not dropped (threshold <= 0) the
\* record staged, created, returned and written for it has the confidence
\* score 0.
C26_AbsentConfidenceIsZero ==
    /\ settings.MIN_CONFIDENCE_THRESHOLD > 0 =>
          \A i \in 1 .. Len(state.validated_tasks) :
             state.validated_tasks[i].confidence # Absent
    /\ AbsentConfidenceStoredAsZero(db.new)
    /\ AbsentConfidenceStoredAsZero(db.rows)
    /\ AbsentConfidenceStoredAsZero(loop.created_tasks)
    /\ AbsentConfidenceStoredAsZero(state.created_tasks)
    /\ AbsentConfidenceStoredAsZero(result.tasks)

\* The priority of a candidate is a number outside [1, 5].
PriorityOutOfRange(c) == c.priority.k = "num" /\ c.priority.n \notin 1 .. 5

\* The tasks of the sequence, as they are stored, have priorities within
\* [1, 5]: 3 for a candidate without one (the key missing or null), else
\* the candidate's.
PrioritiesAsStored(tasks) ==
    \A j \in 1 .. Len(tasks) :
       /\ tasks[j].priority.k = "num" /\ tasks[j].priority.n \in 1 .. 5
       /\ \A i \in 1 .. Len(state.validated_tasks) :
             RecordOf(tasks[j], state.validated_tasks[i]) =>
                tasks[j].priority
                   = IF state.validated_tasks[i].priority \in {Absent, Null}
                     THEN Num(3)
                     ELSE state.validated_tasks[i].priority

\* C27: every record persisted by a run has a priority within [1, 5]: a
\* candidate with no priority gets 3, a candidate with a priority in range
\* keeps it, and a candidate with a priority outside [1, 5] is rejected
\* with a diagnostic rather than stored (nor even staged), while every
\* other candidate is staged.
C27_PriorityInRange ==
    /\ PrioritiesAsStored(db.rows)
    /\ PrioritiesAsStored(state.created_tasks)
    /\ PrioritiesAsStored(result.tasks)
    /\ node = "generate" =>
          \A i \in 1 .. Handled :
             PriorityOutOfRange(state.validated_tasks[i]) <=>
                ~\E j \in 1 .. Len(db.new) :
                    RecordOf(db.new[j], state.validated_tasks[i])
    /\ Occurrences(state.errors, "Failed to create task")
          = Cardinality({i \in 1 .. Handled :
                            PriorityOutOfRange(state.validated_tasks[i])})

\* Of a candidate whose priority is null and one whose priority is 6 the
\* first was written and returned with priority 3 and the second rejected
\* with a diagnostic.
C27_Witness ==
    /\ result.kind = "returned"
    /\ calls.rollback = 0
    /\ Len(state.validated_tasks) = 2
    /\ state.validated_tasks[1].priority = Null
    /\ state.validated_tasks[2].priority = Num(6)
    /\ Len(result.tasks) = 1
    /\ result.tasks[1].priority = Num(3)
    /\ db.rows = <<ExistingTask>> \o result.tasks
    /\ state.errors = <<"Failed to create task">>

\* Every task of the sequence that the run made has the status todo.
AllTodo(tasks) ==
    \A j \in 1 .. Len(tasks) :
       tasks[j].source_id = state.message_id => tasks[j].status = "todo"

\* C28: every record created by Generate has the status todo at creation,
\* whatever its candidate contains, and no stage sets another status: in
\* every state of the run the tasks staged, created, returned and written
\* by the run are todo (none is left out for its status), and the row from
\* before the run keeps the status it had.
C28_StatusTodo ==
    /\ AllTodo(db.new) /\ AllTodo(db.rows)
    /\ AllTodo(loop.created_tasks) /\ AllTodo(state.created_tasks)
    /\ AllTodo(result.tasks)
    /\ db.rows[1] = ExistingTask
    /\ calls.rollback = 0 =>
          Len(db.new) + (Len(db.rows) - 1)
             = Cardinality({i \in 1 .. Handled :
                               ~PriorityOutOfRange(state.validated_tasks[i])})

\* Two candidates that differ in title, priority and due date were both
\* written and returned with the status todo, next to the row from before
\* the run, which is done.
C28_Witness ==
    /\ result.kind = "returned"
    /\ Len(state.validated_tasks) = 2
    /\ state.validated_tasks[1].priority = Num(5)
    /\ state.validated_tasks[2].priority = Null
    /\ Len(result.tasks) = 2
    /\ result.tasks[1].status = "todo" /\ result.tasks[2].status = "todo"
    /\ db.rows = <<ExistingTask>> \o result.tasks
    /\ db.rows[1].status = "done"

\* Every task of the sequence that the run made has the title of a
\* validated candidate cut to the width of the title column, and that
\* title is not blank.
TitlesCutNotBlank(tasks) ==
    \A j \in 1 .. Len(tasks) :
       tasks[j].source_id = state.message_id =>
          /\ Len(tasks[j].title) <= MaxTitleLen
          /\ \E i \in 1 .. Len(state.validated_tasks) :
                RecordOf(tasks[j], state.validated_tasks[i])
          /\ Strip(tasks[j].title) # ""

\* C29: every record persisted by a run has a title that is its
\* candidate's title cut to at most 500 characters, and that title is never
\* blank: what Validate established, a title that is not empty after
\* trimming, still holds of the title staged, created, returned and
\* written.
C29_TitleCutNeverBlank ==
    /\ TitlesCutNotBlank(db.new) /\ TitlesCutNotBlank(db.rows)
    /\ TitlesCutNotBlank(loop.created_tasks)
    /\ TitlesCutNotBlank(state.created_tasks)
    /\ TitlesCutNotBlank(result.tasks)

\* C30: errors is append-only across the whole run: at every step the
\* errors before it are a prefix of the errors after it, so that no stage
\* removes, reorders or overwrites an earlier diagnostic; and errors that
\* are not empty never stop the later stages: no node has raised, and a
\* run that is over has returned with every node started and returned, in
\* order.
C30_ErrorsAppendOnly ==
    /\ [][IsPrefix(state.errors, state'.errors)]_vars
    /\ [](state.errors # <<>> =>
            /\ node # "raised"
            /\ result.kind # "pending" =>
                  /\ result.kind = "returned"
                  /\ events = FullRun)

\* The extraction failed, the later stages ran all the same, and the commit
\* of generate_tasks failed in its turn: the run has returned with both
\* diagnostics, the earlier one first.
C30_Witness ==
    /\ result.kind = "returned"
    /\ events = FullRun
    /\ state.errors = <<"Task extraction failed", "Database commit failed">>

\* The state s with the keys of written taken from t: equal to t when s and
\* t differ in keys of written only.
Except(s, t, written) ==
    [k \in DOMAIN s |-> IF k \in written THEN t[k] ELSE s[k]]

\* The keys of the state each node may write.
Frame(n) ==
    CASE n = "analyze" -> {"is_actionable"}
      [] n = "extract" -> {"extracted_tasks", "confidence_scores", "errors"}
      [] n = "validate" -> {"validated_tasks"}
      [] n = "generate" -> {"created_tasks", "errors"}
      [] OTHER -> {}

\* C31: the frame of each stage.  No step changes content, source or
\* message_id; a step of analyze_message changes is_actionable only, a step
\* of extract_tasks extracted_tasks, confidence_scores and errors only, a
\* step of validate_tasks validated_tasks only, a step of generate_tasks
\* created_tasks and errors only, and no step outside the nodes changes the
\* state: so is_actionable, extracted_tasks and validated_tasks are each
\* written by one node and stay as that node left them.
C31_StageFrames ==
    [][/\ state'.content = state.content
       /\ state'.source = state.source
       /\ state'.message_id = state.message_id
       /\ DOMAIN state' = DOMAIN state
       /\ Except(state', state, Frame(node)) = state]_vars

\* A run in which every node wrote its keys: the content was found
\* actionable, two candidates were extracted and validated, one of them
\* could not be built and the other was committed and returned.
C31_Witness ==
    /\ result.kind = "returned"
    /\ state.is_actionable
    /\ Len(state.extracted_tasks) = 2
    /\ Len(state.validated_tasks) = 2
    /\ Len(state.created_tasks) = 1
    /\ state.errors = <<"Failed to create task">>

\* C32: every run terminates.  With every external call returning or
\* failing, the run comes to the finish point of the graph with
\* created_tasks set, every node having started and returned, and
\* infer_tasks_from_text returns.
C32_RunTerminates ==
    <>(/\ node = "END"
       /\ events = FullRun
       /\ result.kind = "returned")

\* A step attempts the commit of generate_tasks.
CommitAttempted == calls'.commit # calls.commit

\* A step calls rollback.
RollbackCalled == calls'.rollback # calls.rollback

\* The commit is attempted only once the loop of generate_tasks is through
\* every validated candidate, each staged or failed, and not a second time;
\* until then no row of the run is in the table; and rollback is called
\* only in the step whose commit failed.
CommitAfterLoopOnly ==
    /\ [](/\ calls.commit <= 1
          /\ calls.commit = 0 => db.rows = <<ExistingTask>>)
    /\ [][/\ CommitAttempted =>
               /\ node = "generate"
               /\ loop.i = Len(state.validated_tasks) + 1
               /\ calls.add + Occurrences(state.errors, "Failed to create task")
                     = Len(state.validated_tasks)
               /\ calls.commit = 0 /\ calls'.commit = 1
          /\ RollbackCalled =>
               /\ CommitAttempted
               /\ calls'.rollback = calls.rollback + 1
               /\ db'.rows = db.rows
               /\ state'.errors = Append(state.errors, "Database commit failed")
       ]_vars

\* C33: the commit is attempted exactly once per run: a run that is over
\* has attempted it once, also when nothing was staged; it is attempted
\* only after every validated candidate has been processed, no record of
\* the run is committed before that, and rollback is invoked only after a
\* failed commit.
C33_CommitExactlyOnce ==
    /\ CommitAfterLoopOnly
    /\ [](RunEnded => calls.commit = 1)

\* The outcomes of an attempt in which the service returned a response.
Answered == {"ok", "no_text"}

\* A call of the run has returned a response.
ServiceAnswered == \E i \in 1 .. Len(tries) : tries[i] \in Answered

\* C34: retries cover only failed service calls.  Once a call to the
\* extraction service has returned a response, no step of the run calls the
\* service or starts an attempt again, whatever the response is like; so a
\* run whose first call returned a response has made exactly one call.
C34_RetriesOnlyFailedCalls ==
    /\ [][ServiceAnswered =>
            calls'.service = calls.service /\ tries' = tries]_vars
    /\ []((tries # <<>> /\ tries[1] \in Answered) =>
            calls.service = 1 /\ Len(tries) = 1)

\* The rows of the table that carry the id of the run's message.
DurableOfRun ==
    SelectSeq(db.rows, LAMBDA t : t.source_id = state.message_id)

\* C35: returned records and durable records agree.  When the run has
\* returned, the tasks handed to the caller are exactly the rows the run
\* wrote to the table, in order, each with the run's source as source_type
\* and the id of the run's message as source_id: no row is written and not
\* returned, and no task returned and not written.
C35_ReturnedAreDurable ==
    result.kind = "returned" =>
        /\ result.tasks = DurableOfRun
        /\ db.rows = <<ExistingTask>> \o result.tasks
        /\ db.new = <<>>
        /\ \A i \in 1 .. Len(result.tasks) :
              /\ result.tasks[i].source_type = state.source
              /\ result.tasks[i].source_id = state.message_id

\* The stored task has a status of the enum, a confidence score within
\* [0, 100] and a priority that is null or within [1, 5].
StoredTaskValid(t) ==
    /\ t.status \in {"todo", "in_progress", "done"}
    /\ t.confidence_score >= 0 /\ t.confidence_score <= 100
    /\ t.priority = Null
          \/ (t.priority.k = "num" /\ t.priority.n \in 1 .. 5)

\* C36: the invariant of the stored tasks.  After any sequence of requests
\* for inference and of tasks created, updated and deleted by hand, every
\* row of the table has a status in {todo, in_progress, done}, a
\* confidence score within [0, 100] and a priority that is null or within
\* [1, 5]; and a request answered with an error has left the table as it
\* was.
C36_StoredTasksValid ==
    /\ [](\A i \in 1 .. Len(db.rows) : StoredTaskValid(db.rows[i]))
    /\ [][answer'.status_code >= 400 => db'.rows = db.rows]_vars

\* The table holds a task a run of the pipeline made, updated by hand to be
\* in progress without a priority, next to a task created by hand with the
\* defaults, and the request served last, one that would have broken the
\* invariant, was answered with an error.
C36_Witness ==
    /\ answer.status_code \in {422, 500}
    /\ Len(db.rows) = 2
    /\ \E i \in 1 .. Len(db.rows) :
          /\ db.rows[i].source_type = state.source
          /\ db.rows[i].status = "in_progress"
          /\ db.rows[i].priority = Null
          /\ db.rows[i].confidence_score = 100
    /\ \E i \in 1 .. Len(db.rows) :
          /\ db.rows[i].title = "Buy milk"
          /\ db.rows[i].status = "todo"
          /\ db.rows[i].priority = Num(3)

====
